---- MODULE Spec2Model ----
(***************************************************************************)
(* Model of the gate-then-compress core of GiantMess:                      *)
(*   src/axiom_validator.py  AxiomValidator  (three admission rules)       *)
(*   src/ternary_crush.py    TernaryCrush    (ternary weights, bit planes) *)
(*                                                                         *)
(* Both classes are configuration holders whose methods are pure.  A call  *)
(* is one action: it draws its arguments from bounded sets, runs the whole *)
(* method and leaves the arguments and the outcome in the state; Return    *)
(* hands control back to the caller.  For validate, validate_batch and     *)
(* crystallize_grain the caller first builds the arguments (Prepare...),   *)
(* so that the state holds them before and after the call.  A caller may   *)
(* also run validate calls concurrently, one statement group at a time,    *)
(* and may hand a candidate that validate passed on to crystallize_grain.  *)
(*                                                                         *)
(* A Python float is an IEEE-754 double, held exactly as the record       *)
(* [neg, man, exp] of value (-1)^neg * man * 2^exp, and every float         *)
(* operation rounds its exact result to the nearest double, ties to even.  *)
(* The arguments of a call carry confidences and vector components as      *)
(* decimal literals in hundredths, so the literal 0.75 is the integer 75   *)
(* and Pct(75) the double it denotes.  A Python exception is the field     *)
(* raised /= "none" of an outcome.                                         *)
(***************************************************************************)
EXTENDS Integers, Sequences, FiniteSets, TLC

\* ------------------------------------------------------------------ bounds
\* Largest num_bits a crusher is constructed with.
MaxNumBits == 9
\* Longest confidence_scores history of a candidate handed to the validator.
MaxScores == 4
\* Longest list of existing grains handed to the validator.
MaxGrains == 2
\* Largest hit_count of a candidate.
MaxHits == 6
\* Longest confidence_scores history of a candidate handed to the crusher.
MaxCrushScores == 2
\* Longest list of observation vectors handed to the crusher.
MaxVectors == 2
\* Longest list of candidates handed to validate_batch.
MaxBatch == 2

\* ------------------------------------------------- configuration constants
\* AxiomValidator.__init__ defaults.
MinObservations == 5
MinConfidence == 75
MaxInternalHamming == 8
MaxWeightSkew == 200
\* check_least_resistance: "max variance = 0.25" and the 0.7 gate.
MaxVariance == 25
CoherenceThreshold == 70
\* check_independence: pass iff max_overlap < 0.6.
IndependenceThreshold == 60
\* TernaryCrush.__init__: self.confidence_threshold = 0.7.
ConfidenceThreshold == 70

\* --------------------------------------------------------------- rationals
RECURSIVE GCD(_, _)
GCD(a, b) == IF b = 0 THEN a ELSE GCD(b, a % b)

Abs(x) == IF x < 0 THEN -x ELSE x

\* The rational n/d in lowest terms, d > 0.
Rat(n, d) ==
    LET g == GCD(Abs(n), Abs(d))
        s == IF d < 0 THEN -1 ELSE 1
    IN  [num |-> (s * n) \div g, den |-> (s * d) \div g]

RatZero == Rat(0, 1)

\* ---------------------------------------------------------- big naturals
\* A natural number of any size is a sequence of limbs in base 2^15, least
\* significant first, without a zero top limb; <<>> is 0.  Products of two
\* limbs stay below 2^30.
Base == 32768
LimbBits == 15

RECURSIVE BigTrim(_)
BigTrim(a) == IF a /= <<>> /\ a[Len(a)] = 0 THEN BigTrim(SubSeq(a, 1, Len(a) - 1)) ELSE a

Limb(a, i) == IF i <= Len(a) THEN a[i] ELSE 0

RECURSIVE BigFromInt(_)
BigFromInt(n) == IF n = 0 THEN <<>> ELSE <<n % Base>> \o BigFromInt(n \div Base)

\* The value of a big natural below 2^31.
RECURSIVE BigToInt(_)
BigToInt(a) == IF a = <<>> THEN 0 ELSE Head(a) + Base * BigToInt(Tail(a))

RECURSIVE BigAddFrom(_, _, _, _)
BigAddFrom(a, b, i, carry) ==
    IF i > Len(a) /\ i > Len(b)
    THEN IF carry = 0 THEN <<>> ELSE <<carry>>
    ELSE LET s == Limb(a, i) + Limb(b, i) + carry
         IN  <<s % Base>> \o BigAddFrom(a, b, i + 1, s \div Base)

BigAdd(a, b) == BigAddFrom(a, b, 1, 0)

RECURSIVE BigSubFrom(_, _, _, _)
BigSubFrom(a, b, i, borrow) ==
    IF i > Len(a)
    THEN <<>>
    ELSE LET s == a[i] - Limb(b, i) - borrow
         IN  IF s < 0
             THEN <<s + Base>> \o BigSubFrom(a, b, i + 1, 1)
             ELSE <<s>> \o BigSubFrom(a, b, i + 1, 0)

\* a - b for a >= b.
BigSub(a, b) == BigTrim(BigSubFrom(a, b, 1, 0))

RECURSIVE BigCmpFrom(_, _, _)
BigCmpFrom(a, b, i) ==
    IF i = 0 THEN 0
    ELSE IF a[i] < b[i] THEN -1
    ELSE IF a[i] > b[i] THEN 1
    ELSE BigCmpFrom(a, b, i - 1)

\* -1, 0 or 1 as a < b, a = b or a > b.
BigCmp(a, b) ==
    IF Len(a) < Len(b) THEN -1
    ELSE IF Len(a) > Len(b) THEN 1
    ELSE BigCmpFrom(a, b, Len(a))

RECURSIVE BigMulSmallFrom(_, _, _, _)
BigMulSmallFrom(a, k, i, carry) ==
    IF i > Len(a)
    THEN IF carry = 0 THEN <<>> ELSE <<carry>>
    ELSE LET s == a[i] * k + carry
         IN  <<s % Base>> \o BigMulSmallFrom(a, k, i + 1, s \div Base)

\* a * k for 0 <= k <= 2^15.
BigMulSmall(a, k) == IF k = 0 THEN <<>> ELSE BigMulSmallFrom(a, k, 1, 0)

\* a * 2^15.
BigShiftLimb(a) == IF a = <<>> THEN <<>> ELSE <<0>> \o a

RECURSIVE BigMulFrom(_, _, _)
BigMulFrom(a, b, j) ==
    IF j > Len(b) THEN <<>>
    ELSE BigAdd(BigMulSmall(a, b[j]), BigShiftLimb(BigMulFrom(a, b, j + 1)))

BigMul(a, b) == BigMulFrom(a, b, 1)

\* a * 2^n.
BigShl(a, n) ==
    IF a = <<>> THEN <<>>
    ELSE [i \in 1..(n \div LimbBits) |-> 0] \o BigMulSmall(a, 2^(n % LimbBits))

RECURSIVE BigDivSmallFrom(_, _, _, _)
BigDivSmallFrom(a, k, i, rem) ==
    IF i = 0
    THEN [quot |-> <<>>, rem |-> rem]
    ELSE LET cur == rem * Base + a[i]
             rest == BigDivSmallFrom(a, k, i - 1, cur % k)
         IN  [quot |-> rest.quot \o <<cur \div k>>, rem |-> rest.rem]

\* Quotient and remainder of a by k, 1 <= k <= 2^15.
BigDivSmall(a, k) ==
    LET Trimmed(r) == [quot |-> BigTrim(r.quot), rem |-> r.rem]
    IN  Trimmed(BigDivSmallFrom(a, k, Len(a), 0))

RECURSIVE BitLenInt(_)
BitLenInt(n) == IF n = 0 THEN 0 ELSE 1 + BitLenInt(n \div 2)

\* The number of binary digits of a.
BitLen(a) == IF a = <<>> THEN 0 ELSE LimbBits * (Len(a) - 1) + BitLenInt(a[Len(a)])

\* floor(a / 2^n), and whether a nonzero part was dropped.
BigShr(a, n) ==
    LET Shifted(d, low) == [val |-> d.quot, sticky |-> low \/ d.rem /= 0]
        Kept(limbs) == IF limbs >= Len(a) THEN <<>> ELSE SubSeq(a, limbs + 1, Len(a))
    IN  Shifted(BigDivSmall(Kept(n \div LimbBits), 2^(n % LimbBits)),
                \E i \in 1..(n \div LimbBits) : Limb(a, i) /= 0)

\* One step of long division: the quotient digit of rem by b, where
\* rem < b * 2^15 and the top limb of b is at least 2^14.  The digit estimated
\* from the two top limbs of rem is at most 2 too large.
QuotDigit(rem, b) ==
    LET Capped(guess) == IF guess >= Base THEN Base - 1 ELSE guess
        Tried(q0) ==
            IF BigCmp(BigMulSmall(b, q0), rem) <= 0 THEN q0
            ELSE IF BigCmp(BigMulSmall(b, q0 - 1), rem) <= 0 THEN q0 - 1
            ELSE q0 - 2
    IN  Tried(Capped((Limb(rem, Len(b) + 1) * Base + Limb(rem, Len(b))) \div b[Len(b)]))

\* The long division of a by b from limb i of a down to limb 1, where the
\* limbs of a above i are less than b: the quotient digits and the
\* remainder.
RECURSIVE BigDivFrom(_, _, _)
BigDivFrom(a, b, i) ==
    LET Digit(quot, rem, q) ==
            [quot |-> <<q>> \o quot, rem |-> BigSub(rem, BigMulSmall(b, q))]
        Step(quot, rem) == Digit(quot, rem, QuotDigit(rem, b))
        Below(above) == Step(above.quot, BigTrim(<<a[i]>> \o above.rem))
    IN  IF i > Len(a) - Len(b) + 1
        THEN [quot |-> <<>>, rem |-> BigTrim(SubSeq(a, i, Len(a)))]
        ELSE Below(BigDivFrom(a, b, i + 1))

\* Quotient and remainder of a by b > 0: schoolbook long division, one limb
\* of a at a time from the top, after scaling both so that the top limb of
\* the divisor is at least 2^14.  The remainder is that of the scaled
\* numbers.
BigDiv(a, b) ==
    LET Trimmed(d) == [quot |-> BigTrim(d.quot), rem |-> d.rem]
        Scaled(scale) == BigDivFrom(BigShl(a, scale), BigShl(b, scale), 1)
    IN  Trimmed(Scaled(LimbBits - BitLenInt(b[Len(b)])))

\* The number of zero binary digits a > 0 ends in.
RECURSIVE TrailingZerosInt(_)
TrailingZerosInt(n) == IF n % 2 = 1 THEN 0 ELSE 1 + TrailingZerosInt(n \div 2)

RECURSIVE TrailingZeros(_, _)
TrailingZeros(a, i) ==
    IF a[i] /= 0 THEN LimbBits * (i - 1) + TrailingZerosInt(a[i])
    ELSE TrailingZeros(a, i + 1)

\* ------------------------------------------------------------ IEEE doubles
\* A Python float is an IEEE-754 binary64 value, held exactly as
\* (-1)^neg * man * 2^exp.  A double has man = <<>> (zero, which stands for
\* both signed zeros: they compare equal) or man of exactly 53 bits;
\* intermediate exact results may have any number of bits.  Magnitudes stay
\* inside the normal range, so neither overflow nor subnormals occur.
Precision == 53

Dyadic(neg, man, exp) == [neg |-> neg, man |-> man, exp |-> exp]

FZero == Dyadic(FALSE, <<>>, 0)

\* Half of cut.val rounded to the nearest integer, ties to even; sticky (of
\* cut or of the caller) says that the exact value lies strictly above
\* cut.val.
RoundHalfEven(cut, sticky) ==
    LET Nearest(half) ==
            IF half.rem = 1 /\ (cut.sticky \/ sticky \/ Limb(half.quot, 1) % 2 = 1)
            THEN BigAdd(half.quot, <<1>>)
            ELSE half.quot
    IN  Nearest(BigDivSmall(cut.val, 2))

\* Round to nearest, ties to even: the double nearest to man * 2^exp, where
\* sticky says that the exact value lies strictly above man * 2^exp (by less
\* than 2^exp; then man has more than 54 bits).
RoundSticky(neg, man, exp, sticky) ==
    LET Carried(kept, e) ==
            IF BitLen(kept) > Precision
            THEN Dyadic(neg, BigDivSmall(kept, 2).quot, e + 1)
            ELSE Dyadic(neg, kept, e)
        Rounded(len) ==
            IF len <= Precision
            THEN Dyadic(neg, BigShl(man, Precision - len), exp - (Precision - len))
            ELSE Carried(RoundHalfEven(BigShr(man, len - Precision - 1), sticky),
                         exp + len - Precision)
    IN  IF man = <<>> THEN FZero ELSE Rounded(BitLen(man))

RoundToDouble(x) == RoundSticky(x.neg, x.man, x.exp, FALSE)

\* Exact arithmetic on dyadic values.
DyNeg(x) == IF x.man = <<>> THEN x ELSE Dyadic(~x.neg, x.man, x.exp)

DyAdd(x, y) ==
    LET Ordered(a, b, exp, c) ==
            IF c = 0 THEN FZero
            ELSE IF c > 0 THEN Dyadic(x.neg, BigSub(a, b), exp)
            ELSE Dyadic(y.neg, BigSub(b, a), exp)
        Aligned(a, b, exp) ==
            IF x.neg = y.neg THEN Dyadic(x.neg, BigAdd(a, b), exp)
            ELSE Ordered(a, b, exp, BigCmp(a, b))
        At(exp) == Aligned(BigShl(x.man, x.exp - exp), BigShl(y.man, y.exp - exp), exp)
    IN  IF x.man = <<>> THEN y
        ELSE IF y.man = <<>> THEN x
        ELSE At(IF x.exp < y.exp THEN x.exp ELSE y.exp)

DySub(x, y) == DyAdd(x, DyNeg(y))

DyMul(x, y) ==
    IF x.man = <<>> \/ y.man = <<>> THEN FZero
    ELSE Dyadic(x.neg /= y.neg, BigMul(x.man, y.man), x.exp + y.exp)

\* -1, 0 or 1 as x < y, x = y or x > y.
DyCmp(x, y) ==
    LET Sign(d) == IF d.man = <<>> THEN 0 ELSE IF d.neg THEN -1 ELSE 1
    IN  Sign(DySub(x, y))

\* The integer n, |n| < 2^31, as an exact dyadic value.
DyInt(n) == Dyadic(n < 0, BigFromInt(IF n < 0 THEN -n ELSE n), 0)

\* The double nearest to x / k for an integer 1 <= k <= 2^15: the quotient
\* is carried to more than 54 bits and rounded once.
DyDivSmall(x, k) ==
    LET Quotient(d, exp) == RoundSticky(x.neg, d.quot, exp, d.rem /= 0)
    IN  Quotient(BigDivSmall(BigShl(x.man, 75), k), x.exp - 75)

\* float(n) for an integer |n| < 2^31.
FromInt(n) == RoundToDouble(DyInt(n))

\* n / d of two Python ints (true division, correctly rounded), which is
\* also the double a decimal literal n/d denotes; 1 <= d <= 2^15.
FromRatio(n, d) == DyDivSmall(DyInt(n), d)

\* Float operations: the exact result, rounded once.
FAdd(x, y) == RoundToDouble(DyAdd(x, y))
FSub(x, y) == RoundToDouble(DySub(x, y))
FMul(x, y) == RoundToDouble(DyMul(x, y))

\* The double nearest to the quotient d of two mantissas, scaled by 2^exp.
RoundQuotient(neg, d, exp) == RoundSticky(neg, d.quot, exp, d.rem /= <<>>)

\* x / y where y.man = odd * 2^zeros: an odd part of one limb divides limb
\* by limb, a longer one by long division carried to more than 54 bits.
FDivOdd(x, y, odd, zeros) ==
    IF Len(odd) = 1
    THEN DyDivSmall(Dyadic(x.neg /= y.neg, x.man, x.exp - y.exp - zeros), odd[1])
    ELSE RoundQuotient(x.neg /= y.neg, BigDiv(BigShl(x.man, 57), y.man),
                       x.exp - y.exp - 57)

\* x / y for doubles x and y /= 0: the exact quotient, rounded once.
FDiv(x, y) ==
    IF x.man = <<>> THEN FZero
    ELSE FDivOdd(x, y, BigShr(y.man, TrailingZeros(y.man, 1)).val,
                 TrailingZeros(y.man, 1))

FLT(x, y) == DyCmp(x, y) < 0
FLE(x, y) == DyCmp(x, y) <= 0
FGT(x, y) == DyCmp(x, y) > 0
FGE(x, y) == DyCmp(x, y) >= 0
FMin(x, y) == IF FLT(y, x) THEN y ELSE x
FAbs(x) == Dyadic(FALSE, x.man, x.exp)

\* int(x) for a double 0 <= x < 2^31 (so x.exp < 0): the integer part.
Trunc(x) == IF x.man = <<>> THEN 0 ELSE BigToInt(BigShr(x.man, -x.exp).val)

\* The thousandth nearest to the exact value of a double 0 <= x < 2^21 (so
\* x.exp < 0), as a number of thousandths; a tie of the exact value goes to
\* the even one.
NearestThousandth(x) ==
    IF x.man = <<>> THEN 0
    ELSE BigToInt(RoundHalfEven(BigShr(BigMulSmall(x.man, 1000), -x.exp - 1), FALSE))

\* round(x, 3): the exact value of x is rounded to the nearest thousandth,
\* and the result is the double nearest to that thousandth.
Round3(x) ==
    LET Signed(k) == FromRatio(IF x.neg THEN -k ELSE k, 1000)
    IN  Signed(NearestThousandth(FAbs(x)))

\* The doubles of the decimal literals -1.00 .. 1.00, by their hundredths.
PctTable == [p \in -100..100 |-> FromRatio(p, 100)]

\* The double a decimal literal given in hundredths denotes (0.75 is 75).
Pct(p) == PctTable[p]

FOne == FromInt(1)

\* The floats a list of literals in hundredths denotes.
Floats(literals) == [i \in 1..Len(literals) |-> Pct(literals[i])]

\* sum(values) of floats: the additions in list order, each one rounded.
RECURSIVE SumUpTo(_, _)
SumUpTo(values, n) == IF n = 0 THEN FZero ELSE FAdd(SumUpTo(values, n - 1), values[n])

FSum(values) == SumUpTo(values, Len(values))

\* The exact sum of the values, and of their squares.
RECURSIVE ExactSum(_, _)
ExactSum(values, n) == IF n = 0 THEN FZero ELSE DyAdd(ExactSum(values, n - 1), values[n])

RECURSIVE ExactSumSquares(_, _)
ExactSumSquares(values, n) ==
    IF n = 0 THEN FZero
    ELSE DyAdd(ExactSumSquares(values, n - 1), DyMul(values[n], values[n]))

\* statistics.variance of two or more floats: the sample variance
\* (n * sum(x^2) - sum(x)^2) / (n * (n - 1)) of their exact values, computed
\* exactly and rounded once.
Variance(values) ==
    DyDivSmall(DySub(DyMul(DyInt(Len(values)), ExactSumSquares(values, Len(values))),
                     DyMul(ExactSum(values, Len(values)), ExactSum(values, Len(values)))),
               Len(values) * (Len(values) - 1))

\* ------------------------------------------------------- phantom candidate
\* PhantomCandidate.avg_confidence(): the mean of confidence_scores, taken
\* as sum(scores) / len(scores) in float arithmetic, 0.0 for an empty
\* history.
avg_confidence(phantom) ==
    IF Len(phantom.confidence_scores) = 0
    THEN FZero
    ELSE DyDivSmall(FSum(Floats(phantom.confidence_scores)),
                    Len(phantom.confidence_scores))

\* ---------------------------------------------------------- AxiomValidator
\* AxiomValidator.__init__ with its default arguments.
NewValidator ==
    [min_observations |-> MinObservations,
     min_confidence |-> MinConfidence,
     max_internal_hamming |-> MaxInternalHamming,
     max_weight_skew |-> MaxWeightSkew]

\* Mutant: the reason is chosen by looking at the confidence first.
check_persistence_confidence_first(v, phantom) ==
    LET passed == /\ phantom.hit_count >= v.min_observations
                  /\ FGE(avg_confidence(phantom), Pct(v.min_confidence))
    IN  [rule |-> "persistence",
         hit_count |-> phantom.hit_count,
         min_required |-> v.min_observations,
         passed |-> passed,
         reason |-> IF passed THEN "Persistent pattern detected"
                    ELSE IF FLT(avg_confidence(phantom), Pct(v.min_confidence))
                         THEN "Low confidence" ELSE "Too few hits"]

\* Mutant: the docstring's "avg confidence > 0.75" in place of >=.
check_persistence_strict(v, phantom) ==
    LET passed == /\ phantom.hit_count >= v.min_observations
                  /\ FGT(avg_confidence(phantom), Pct(v.min_confidence))
    IN  [rule |-> "persistence",
         hit_count |-> phantom.hit_count,
         min_required |-> v.min_observations,
         passed |-> passed,
         reason |-> IF passed THEN "Persistent pattern detected"
                    ELSE IF phantom.hit_count < v.min_observations
                         THEN "Too few hits" ELSE "Low confidence"]

\* check_persistence: at least min_observations hits and an average
\* confidence of at least min_confidence; the reason of a failure looks at
\* the hit count first.
check_persistence(v, phantom) ==
    LET Metrics(passed) ==
            [rule |-> "persistence",
             hit_count |-> phantom.hit_count,
             min_required |-> v.min_observations,
             passed |-> passed,
             reason |-> IF ~passed
                        THEN IF phantom.hit_count < v.min_observations
                             THEN "Too few hits" ELSE "Low confidence"
                        ELSE "Persistent pattern detected"]
    IN  Metrics(/\ phantom.hit_count >= v.min_observations
                /\ FGE(avg_confidence(phantom), Pct(v.min_confidence)))

\* confidence_variance: statistics.variance of the scores, 0.0 below two.
ConfidenceVariance(literals) ==
    IF Len(literals) < 2 THEN FZero ELSE Variance(Floats(literals))

\* coherence_score = 1.0 - min(confidence_variance / 0.25, 1.0)
CoherenceScore(variance) ==
    FSub(FOne, FMin(FDiv(variance, Pct(MaxVariance)), FOne))

\* concept_consistency: 1.0 without concepts, else
\* min(1.0, unique_concepts / max(total_concepts, 1)).
ConceptConsistency(concepts) ==
    LET unique_concepts == Cardinality({concepts[i] : i \in 1..Len(concepts)})
        total_concepts == Len(concepts)
    IN  IF total_concepts > 0
        THEN FMin(FOne, FromRatio(unique_concepts, total_concepts))
        ELSE FOne

\* The metrics of check_least_resistance for the locals confidence_variance,
\* coherence_score and concept_consistency: the verdict is taken from the
\* local coherence_score, and the three values are reported rounded to the
\* thousandth.
LeastResistanceMetrics(confidence_variance, coherence_score, concept_consistency) ==
    [rule |-> "least_resistance",
     confidence_variance |-> Round3(confidence_variance),
     coherence_score |-> Round3(coherence_score),
     concept_consistency |-> Round3(concept_consistency),
     passed |-> FGE(coherence_score, Pct(CoherenceThreshold)),
     reason |-> IF FGE(coherence_score, Pct(CoherenceThreshold))
                THEN "Coherent observations" ELSE "Low coherence (contradictions detected)"]

\* check_least_resistance from the variance on.
LeastResistance(phantom, confidence_variance) ==
    LeastResistanceMetrics(confidence_variance, CoherenceScore(confidence_variance),
                           ConceptConsistency(phantom.query_concepts))

\* Mutant: the population variance (n in the denominator) in place of
\* statistics.variance.
check_least_resistance_population(v, phantom) ==
    LET scores == Floats(phantom.confidence_scores)
        n == Len(scores)
    IN  LeastResistance(phantom,
            IF n < 2 THEN FZero
            ELSE DyDivSmall(DySub(DyMul(DyInt(n), ExactSumSquares(scores, n)),
                                  DyMul(ExactSum(scores, n), ExactSum(scores, n))),
                            n * n))

\* Mutant: the verdict asks for both the coherence and the concept check, as
\* the comment above the verdict says.
check_least_resistance_concept_gated(v, phantom) ==
    LET variance == ConfidenceVariance(phantom.confidence_scores)
        coherence == CoherenceScore(variance)
        consistency == ConceptConsistency(phantom.query_concepts)
        passed == /\ FGE(coherence, Pct(CoherenceThreshold))
                  /\ FGE(consistency, Pct(CoherenceThreshold))
    IN  [rule |-> "least_resistance",
         confidence_variance |-> Round3(variance),
         coherence_score |-> Round3(coherence),
         concept_consistency |-> Round3(consistency),
         passed |-> passed,
         reason |-> IF passed THEN "Coherent observations" ELSE "Low coherence (contradictions detected)"]

\* check_least_resistance.  The verdict is taken from the local
\* coherence_score; the metrics report the variance, the coherence score and
\* the concept consistency rounded to the thousandth.
check_least_resistance(v, phantom) ==
    LeastResistance(phantom, ConfidenceVariance(phantom.confidence_scores))

\* An existing-grain record as check_independence probes it: whether it has
\* the attribute source_phantom_id, what that attribute holds (a set of fact
\* ids, or a string such as the phantom id crystallize_grain stores), and
\* whether it has the attribute grain_id.
Grain(has_source, source_kind, source_facts, source_text, has_grain_id, grain_id) ==
    [has_source |-> has_source,
     source_kind |-> source_kind,
     source_facts |-> source_facts,
     source_text |-> source_text,
     has_grain_id |-> has_grain_id,
     grain_id |-> grain_id]

\* Optional[List[GrainMetadata]]: None, or a list.
NoneGrains == [is_none |-> TRUE, list |-> <<>>]
SomeGrains(list) == [is_none |-> FALSE, list |-> list]

\* Mutant: a grain as similar as the most similar one so far replaces it
\* (>= in place of >).
ScoreGrain_last_wins(fact_ids, grain, acc) ==
    IF ~grain.has_source
    THEN acc
    ELSE IF grain.source_kind /= "set"
    THEN [acc EXCEPT !.raised = "TypeError"]
    ELSE IF Cardinality(fact_ids \cup grain.source_facts) = 0
    THEN [acc EXCEPT !.raised = "ZeroDivisionError"]
    ELSE LET overlap == FromRatio(Cardinality(fact_ids \cap grain.source_facts),
                                  Cardinality(fact_ids \cup grain.source_facts))
         IN  IF FGE(overlap, acc.max_overlap)
             THEN [acc EXCEPT !.max_overlap = overlap,
                              !.most_similar_grain =
                                  IF grain.has_grain_id THEN grain.grain_id
                                  ELSE "unknown"]
             ELSE acc

\* `if overlap > max_overlap`: the grain becomes the most similar one.
ScoreOverlap(grain, acc, overlap) ==
    IF FGT(overlap, acc.max_overlap)
    THEN [acc EXCEPT !.max_overlap = overlap,
                     !.most_similar_grain =
                         IF grain.has_grain_id THEN grain.grain_id ELSE "unknown"]
    ELSE acc

\* One iteration of the loop over existing_grains: `phantom.fact_ids &
\* grain.source_phantom_id` raises TypeError for a string, the division
\* raises ZeroDivisionError for an empty union.
ScoreGrain(fact_ids, grain, acc) ==
    IF ~grain.has_source
    THEN acc
    ELSE IF grain.source_kind /= "set"
    THEN [acc EXCEPT !.raised = "TypeError"]
    ELSE IF Cardinality(fact_ids \cup grain.source_facts) = 0
    THEN [acc EXCEPT !.raised = "ZeroDivisionError"]
    ELSE ScoreOverlap(grain, acc,
                      FromRatio(Cardinality(fact_ids \cap grain.source_facts),
                                Cardinality(fact_ids \cup grain.source_facts)))

\* The loop `for grain in existing_grains`, left at the first exception.
RECURSIVE ScanGrains(_, _, _)
ScanGrains(fact_ids, grains, acc) ==
    IF grains = <<>> \/ acc.raised /= "none"
    THEN acc
    ELSE ScanGrains(fact_ids, Tail(grains), ScoreGrain(fact_ids, Head(grains), acc))

\* Mutant: pass at an overlap of exactly 0.6 (<= in place of <).
check_independence_inclusive(v, phantom, existing_grains) ==
    IF existing_grains.is_none \/ existing_grains.list = <<>>
    THEN [rule |-> "independence", raised |-> "none", scored |-> FALSE,
          max_overlap |-> FZero, max_overlap_with_existing |-> FZero,
          most_similar_grain |-> "None",
          passed |-> TRUE, reason |-> "No existing grains to check against"]
    ELSE LET acc == ScanGrains(phantom.fact_ids, existing_grains.list,
                               [raised |-> "none", max_overlap |-> FZero,
                                most_similar_grain |-> "None"])
             passed == FLE(acc.max_overlap, Pct(IndependenceThreshold))
         IN  [rule |-> "independence", raised |-> acc.raised, scored |-> TRUE,
              max_overlap |-> acc.max_overlap,
              max_overlap_with_existing |-> Round3(acc.max_overlap),
              most_similar_grain |-> acc.most_similar_grain,
              passed |-> acc.raised = "none" /\ passed,
              reason |-> IF acc.raised /= "none" THEN acc.raised
                         ELSE IF passed THEN "Independent pattern"
                         ELSE "Too similar to existing grain"]

\* The metrics of check_independence after the loop over the grains.
IndependenceMetrics(acc) ==
    [rule |-> "independence", raised |-> acc.raised, scored |-> TRUE,
     max_overlap |-> acc.max_overlap,
     max_overlap_with_existing |-> Round3(acc.max_overlap),
     most_similar_grain |-> acc.most_similar_grain,
     passed |-> /\ acc.raised = "none"
                /\ FLT(acc.max_overlap, Pct(IndependenceThreshold)),
     reason |-> IF acc.raised /= "none" THEN acc.raised
                ELSE IF FLT(acc.max_overlap, Pct(IndependenceThreshold))
                THEN "Independent pattern"
                ELSE "Too similar to existing grain"]

\* check_independence.  The outcome carries raised /= "none" when the loop
\* raised; its other fields are then not returned to the caller.  scored is
\* FALSE on the early return, whose metrics hold no overlap.  max_overlap
\* is the local the verdict is taken from, max_overlap_with_existing the
\* rounded value the metrics report.
check_independence(v, phantom, existing_grains) ==
    IF existing_grains.is_none \/ existing_grains.list = <<>>
    THEN [rule |-> "independence", raised |-> "none", scored |-> FALSE,
          max_overlap |-> FZero, max_overlap_with_existing |-> FZero,
          most_similar_grain |-> "None",
          passed |-> TRUE, reason |-> "No existing grains to check against"]
    ELSE IndependenceMetrics(
             ScanGrains(phantom.fact_ids, existing_grains.list,
                        [raised |-> "none", max_overlap |-> FZero,
                         most_similar_grain |-> "None"]))

\* What a call hands back: a value, or the exception it raised.
Returned(value) == [raised |-> "none", value |-> value]
Raised(exception) == [raised |-> exception, value |-> "no value"]

\* The report validate starts from.
EmptyReport(phantom) ==
    [phantom_id |-> phantom.phantom_id,
     cartridge_id |-> phantom.cartridge_id,
     timestamp |-> phantom.created_at,
     rules |-> <<>>,
     overall_passed |-> FALSE,
     failed_rules |-> <<>>]

\* Mutant: a failing rule is put at the front of failed_rules.
AddRule_prepend(report, name, metrics) ==
    [report EXCEPT !.rules = (name :> metrics) @@ @,
                   !.failed_rules = IF metrics.passed THEN @ ELSE <<name>> \o @]

\* report["rules"][name] = metrics, and the append to failed_rules.
AddRule(report, name, metrics) ==
    [report EXCEPT !.rules = (name :> metrics) @@ @,
                   !.failed_rules = IF metrics.passed THEN @ ELSE Append(@, name)]

\* The verdict string: its kind, and for a rejection the number and the
\* names it prints.
Verdict(overall_passed, failed_rules) ==
    IF overall_passed
    THEN [kind |-> "CRYSTALLIZE", count |-> 0, names |-> <<>>]
    ELSE [kind |-> "REJECT", count |-> Len(failed_rules), names |-> failed_rules]

\* Mutant: stop at the first failing rule.
validate_short_circuit(v, phantom, existing_grains) ==
    LET r1 == AddRule(EmptyReport(phantom), "persistence", check_persistence(v, phantom))
        r2 == AddRule(r1, "least_resistance", check_least_resistance(v, phantom))
        independence == check_independence(v, phantom, existing_grains)
        r3 == AddRule(r2, "independence", independence)
        done(r) == Returned([phantom_id |-> r.phantom_id,
                             cartridge_id |-> r.cartridge_id,
                             timestamp |-> r.timestamp,
                             rules |-> r.rules,
                             overall_passed |-> r.failed_rules = <<>>,
                             failed_rules |-> r.failed_rules,
                             verdict |-> Verdict(r.failed_rules = <<>>, r.failed_rules)])
    IN  IF r1.failed_rules /= <<>> THEN done(r1)
        ELSE IF r2.failed_rules /= <<>> THEN done(r2)
        ELSE IF independence.raised /= "none" THEN Raised(independence.raised)
        ELSE done(r3)

\* The report of validate from the metrics of the three rules.
ValidationReport(phantom, persistence, resistance, independence) ==
    LET r1 == AddRule(EmptyReport(phantom), "persistence", persistence)
        r2 == AddRule(r1, "least_resistance", resistance)
        r3 == AddRule(r2, "independence", independence)
        overall_passed == persistence.passed /\ resistance.passed /\ independence.passed
    IN  IF independence.raised /= "none"
        THEN Raised(independence.raised)
        ELSE Returned([phantom_id |-> r3.phantom_id,
                       cartridge_id |-> r3.cartridge_id,
                       timestamp |-> r3.timestamp,
                       rules |-> r3.rules,
                       overall_passed |-> overall_passed,
                       failed_rules |-> r3.failed_rules,
                       verdict |-> Verdict(overall_passed, r3.failed_rules)])

\* validate: the three rules in order, none skipped; an exception of
\* check_independence propagates to the caller.
validate(v, phantom, existing_grains) ==
    ValidationReport(phantom,
                     check_persistence(v, phantom),
                     check_least_resistance(v, phantom),
                     check_independence(v, phantom, existing_grains))

\* The results validate_batch starts from.
EmptyResults(phantoms) ==
    [raised |-> "none",
     total_phantoms |-> Len(phantoms),
     crystallization_ready |-> <<>>,
     rejected |-> <<>>,
     summary |-> [passed_persistence |-> 0,
                  passed_least_resistance |-> 0,
                  passed_independence |-> 0,
                  passed_all |-> 0]]

\* Mutant: passed_all is incremented outside the `if passed` branch, for
\* every candidate.
FileCandidate_tally_all(phantom, outcome, results) ==
    LET report == outcome.value
        Tally(name) == IF report.rules[name].passed THEN 1 ELSE 0
    IN  IF outcome.raised /= "none"
        THEN [results EXCEPT !.raised = outcome.raised]
        ELSE [results EXCEPT
                 !.crystallization_ready =
                     IF report.overall_passed
                     THEN Append(@, [phantom_id |-> phantom.phantom_id,
                                     fact_ids |-> phantom.fact_order,
                                     confidence |-> Round3(avg_confidence(phantom))])
                     ELSE @,
                 !.rejected =
                     IF report.overall_passed
                     THEN @
                     ELSE Append(@, [phantom_id |-> phantom.phantom_id,
                                     reasons |-> report.failed_rules,
                                     report |-> report]),
                 !.summary.passed_all = @ + 1,
                 !.summary.passed_persistence = @ + Tally("persistence"),
                 !.summary.passed_least_resistance = @ + Tally("least_resistance"),
                 !.summary.passed_independence = @ + Tally("independence")]

\* Mutant: the three rule tallies sit inside the else branch, so only the
\* rejected candidates are counted.
FileCandidate_tally_rejected(phantom, outcome, results) ==
    LET report == outcome.value
        Tally(name) == IF report.rules[name].passed THEN 1 ELSE 0
    IN  IF outcome.raised /= "none"
        THEN [results EXCEPT !.raised = outcome.raised]
        ELSE IF report.overall_passed
        THEN [results EXCEPT
                 !.crystallization_ready =
                     Append(@, [phantom_id |-> phantom.phantom_id,
                                fact_ids |-> phantom.fact_order,
                                confidence |-> Round3(avg_confidence(phantom))]),
                 !.summary.passed_all = @ + 1]
        ELSE [results EXCEPT
                 !.rejected =
                     Append(@, [phantom_id |-> phantom.phantom_id,
                                reasons |-> report.failed_rules,
                                report |-> report]),
                 !.summary.passed_persistence = @ + Tally("persistence"),
                 !.summary.passed_least_resistance = @ + Tally("least_resistance"),
                 !.summary.passed_independence = @ + Tally("independence")]

\* The body of validate_batch's loop after the call of validate: the
\* candidate is filed under crystallization_ready or rejected and its rule
\* passes are tallied.  An exception of validate ends the call.
FileCandidate(phantom, outcome, results) ==
    LET report == outcome.value
        Tally(name) == IF report.rules[name].passed THEN 1 ELSE 0
    IN  IF outcome.raised /= "none"
        THEN [results EXCEPT !.raised = outcome.raised]
        ELSE [results EXCEPT
                 !.crystallization_ready =
                     IF report.overall_passed
                     THEN Append(@, [phantom_id |-> phantom.phantom_id,
                                     fact_ids |-> phantom.fact_order,
                                     confidence |-> Round3(avg_confidence(phantom))])
                     ELSE @,
                 !.rejected =
                     IF report.overall_passed
                     THEN @
                     ELSE Append(@, [phantom_id |-> phantom.phantom_id,
                                     reasons |-> report.failed_rules,
                                     report |-> report]),
                 !.summary.passed_all = IF report.overall_passed THEN @ + 1 ELSE @,
                 !.summary.passed_persistence = @ + Tally("persistence"),
                 !.summary.passed_least_resistance = @ + Tally("least_resistance"),
                 !.summary.passed_independence = @ + Tally("independence")]

\* One iteration of validate_batch's loop: the candidate is validated
\* against existing_grains and filed.
BatchStep(v, phantom, existing_grains, results) ==
    FileCandidate(phantom, validate(v, phantom, existing_grains), results)

\* Mutant: a candidate found ready joins, as a grain whose identity is its
\* fact_ids, the grains the later candidates are compared against.
RECURSIVE BatchLoop_accumulating(_, _, _, _)
BatchLoop_accumulating(v, phantoms, existing_grains, results) ==
    IF phantoms = <<>> \/ results.raised /= "none"
    THEN results
    ELSE LET after == BatchStep(v, Head(phantoms), existing_grains, results)
             ready == Len(after.crystallization_ready) > Len(results.crystallization_ready)
             accepted == Grain(TRUE, "set", Head(phantoms).fact_ids, "",
                               TRUE, Head(phantoms).phantom_id)
         IN  BatchLoop_accumulating(v, Tail(phantoms),
                 IF ready THEN SomeGrains(Append(existing_grains.list, accepted))
                 ELSE existing_grains,
                 after)

\* The loop `for phantom in phantoms`, left at the first exception.
RECURSIVE BatchLoop(_, _, _, _)
BatchLoop(v, phantoms, existing_grains, results) ==
    IF phantoms = <<>> \/ results.raised /= "none"
    THEN results
    ELSE BatchLoop(v, Tail(phantoms), existing_grains,
                   BatchStep(v, Head(phantoms), existing_grains, results))

\* Mutant: the rejection rate divides by len(phantoms) without the
\* `if phantoms` guard.
validate_batch_unguarded(v, phantoms, existing_grains) ==
    LET results == BatchLoop(v, phantoms, existing_grains, EmptyResults(phantoms))
    IN  IF results.raised /= "none"
        THEN Raised(results.raised)
        ELSE IF phantoms = <<>>
        THEN Raised("ZeroDivisionError")
        ELSE Returned(
            [total_phantoms |-> results.total_phantoms,
             crystallization_ready |-> results.crystallization_ready,
             rejected |-> results.rejected,
             summary |-> [passed_persistence |-> results.summary.passed_persistence,
                          passed_least_resistance |->
                              results.summary.passed_least_resistance,
                          passed_independence |-> results.summary.passed_independence,
                          passed_all |-> results.summary.passed_all,
                          rejection_rate |->
                              FromRatio(Len(results.rejected), Len(phantoms))]])

\* The return of validate_batch after the loop: the rejection rate, 0 for
\* an empty list, joins the summary.
BatchResults(phantoms, results) ==
    IF results.raised /= "none"
    THEN Raised(results.raised)
    ELSE Returned(
        [total_phantoms |-> results.total_phantoms,
         crystallization_ready |-> results.crystallization_ready,
         rejected |-> results.rejected,
         summary |-> [passed_persistence |-> results.summary.passed_persistence,
                      passed_least_resistance |->
                          results.summary.passed_least_resistance,
                      passed_independence |-> results.summary.passed_independence,
                      passed_all |-> results.summary.passed_all,
                      rejection_rate |->
                          IF phantoms /= <<>>
                          THEN FromRatio(Len(results.rejected), Len(phantoms))
                          ELSE FZero]])

\* validate_batch: validate mapped over the candidates in order, then the
\* rejection rate.
validate_batch(v, phantoms, existing_grains) ==
    BatchResults(phantoms, BatchLoop(v, phantoms, existing_grains, EmptyResults(phantoms)))

\* The locals of a validate call that has not run a statement yet.
NewFrame(phantom) ==
    [step |-> 0, report |-> EmptyReport(phantom), outcome |-> Raised("running")]

\* validate, one rule at a time: the frame of a call after its next
\* statement group (persistence, least_resistance, independence, then the
\* overall verdict and the return).  The report is a local of the call.
validate_step(v, phantom, existing_grains, frame) ==
    LET Checked(independence) ==
            IF independence.raised /= "none"
            THEN [frame EXCEPT !.step = 4, !.outcome = Raised(independence.raised)]
            ELSE [frame EXCEPT !.step = 3,
                               !.report = AddRule(@, "independence", independence)]
        overall_passed ==
            /\ frame.report.rules["persistence"].passed
            /\ frame.report.rules["least_resistance"].passed
            /\ frame.report.rules["independence"].passed
    IN  IF frame.step = 0
        THEN [frame EXCEPT !.step = 1,
                           !.report = AddRule(@, "persistence",
                                              check_persistence(v, phantom))]
        ELSE IF frame.step = 1
        THEN [frame EXCEPT !.step = 2,
                           !.report = AddRule(@, "least_resistance",
                                              check_least_resistance(v, phantom))]
        ELSE IF frame.step = 2
        THEN Checked(check_independence(v, phantom, existing_grains))
        ELSE [frame EXCEPT
                 !.step = 4,
                 !.outcome = Returned([phantom_id |-> frame.report.phantom_id,
                                       cartridge_id |-> frame.report.cartridge_id,
                                       timestamp |-> frame.report.timestamp,
                                       rules |-> frame.report.rules,
                                       overall_passed |-> overall_passed,
                                       failed_rules |-> frame.report.failed_rules,
                                       verdict |-> Verdict(overall_passed,
                                                           frame.report.failed_rules)])]

\* ------------------------------------------------------------ TernaryCrush
\* TernaryCrush.__init__.
NewCrush(num_bits) ==
    [num_bits |-> num_bits, confidence_threshold |-> ConfidenceThreshold]

\* TernaryWeight(position, value, confidence, sources).  The confidence is a
\* float; sources is the prefix of its strings and the fact ids they
\* name, in the order the list holds them.
TernaryWeight(position, value, confidence, sources) ==
    [position |-> position, value |-> value,
     confidence |-> confidence, sources |-> sources]

NoSources == [prefix |-> "", fact_ids |-> <<>>]

Min(a, b) == IF a <= b THEN a ELSE b

\* The weights of _infer_synthetic for its locals avg_conf, positive_count
\* and negative_count: +1 at the lowest positions, then -1, then void; the
\* candidate gives only the confidences and the sources (`for fid in
\* phantom.fact_ids`, the set's iteration order).
SyntheticWeights(c, phantom, avg_conf, positive_count, negative_count) ==
    [k \in 1..c.num_bits |->
        IF k - 1 < positive_count
        THEN TernaryWeight(k - 1, 1, FAdd(avg_conf, Pct(5)),
                 [prefix |-> "fact_", fact_ids |-> phantom.fact_order])
        ELSE IF k - 1 < positive_count + negative_count
        THEN TernaryWeight(k - 1, -1, FSub(FOne, avg_conf),
                 [prefix |-> "contradiction_", fact_ids |-> phantom.fact_order])
        ELSE TernaryWeight(k - 1, 0, FZero, NoSources)]

\* Mutant: the two counts rounded to the nearest integer, not truncated.
infer_synthetic_rounded(c, phantom) ==
    SyntheticWeights(c, phantom, avg_confidence(phantom),
                     (c.num_bits * 30 + 50) \div 100,
                     (c.num_bits * 20 + 50) \div 100)

\* _infer_synthetic: int(num_bits * 0.30) weights of +1, then
\* int(num_bits * 0.20) of -1, then void.
infer_synthetic(c, phantom) ==
    SyntheticWeights(c, phantom, avg_confidence(phantom),
                     Trunc(FMul(FromInt(c.num_bits), Pct(30))),
                     Trunc(FMul(FromInt(c.num_bits), Pct(20))))

\* The weight of a pair of zip(vectors, confidences): its confidence over
\* total_confidence, or 1.0 / len(vectors) when the total is not positive.
VectorWeight(vectors, total_confidence, confidence) ==
    IF FGT(total_confidence, FZero)
    THEN FDiv(Pct(confidence), total_confidence)
    ELSE FromRatio(1, Len(vectors))

\* The weights of the first n pairs.
RECURSIVE VectorWeightsUpTo(_, _, _, _)
VectorWeightsUpTo(vectors, confidences, total_confidence, n) ==
    IF n = 0 THEN <<>>
    ELSE Append(VectorWeightsUpTo(vectors, confidences, total_confidence, n - 1),
                VectorWeight(vectors, total_confidence, confidences[n]))

\* The weights of the pairs of zip(vectors, confidences), which stops at
\* the shorter list; total_confidence = sum(confidences) is taken over all
\* the confidences.
VectorWeights(vectors, confidences) ==
    VectorWeightsUpTo(vectors, confidences, FSum(Floats(confidences)),
                      Min(Len(vectors), Len(confidences)))

\* aggregated[i] after the first n pairs: `aggregated[i] += val * weight`,
\* from 0.0, components in hundredths.
RECURSIVE AggregatedUpTo(_, _, _, _)
AggregatedUpTo(vectors, pair_weights, i, n) ==
    IF n = 0 THEN FZero
    ELSE FAdd(AggregatedUpTo(vectors, pair_weights, i, n - 1),
              FMul(Pct(vectors[n][i]), pair_weights[n]))

\* aggregated[i] of _infer_from_vectors.
Aggregated(vectors, confidences, i) ==
    LET pair_weights == VectorWeights(vectors, confidences)
    IN  AggregatedUpTo(vectors, pair_weights, i, Len(pair_weights))

\* Mutant: the thresholds taken inclusively (>= and <=).
Threshold_inclusive(c, position, value) ==
    IF FGE(value, Pct(c.confidence_threshold))
    THEN TernaryWeight(position, 1, FMin(FOne, value), NoSources)
    ELSE IF FLE(value, Pct(-c.confidence_threshold))
    THEN TernaryWeight(position, -1, FMin(FOne, FAbs(value)), NoSources)
    ELSE TernaryWeight(position, 0, FZero, NoSources)

\* The ternary conversion of one aggregated value.
Threshold(c, position, value) ==
    IF FGT(value, Pct(c.confidence_threshold))
    THEN TernaryWeight(position, 1, FMin(FOne, value), NoSources)
    ELSE IF FLT(value, Pct(-c.confidence_threshold))
    THEN TernaryWeight(position, -1, FMin(FOne, FAbs(value)), NoSources)
    ELSE TernaryWeight(position, 0, FZero, NoSources)

\* The ternary conversion of every aggregated component.
ThresholdAll(c, vectors, pair_weights) ==
    [k \in 1..c.num_bits |->
        Threshold(c, k - 1,
                  AggregatedUpTo(vectors, pair_weights, k, Len(pair_weights)))]

\* Mutant: aggregate the vectors of the right length and drop the others.
infer_from_vectors_lenient(c, vectors, confidences) ==
    LET kept == SelectSeq(vectors, LAMBDA v : Len(v) = c.num_bits)
    IN  Returned(ThresholdAll(c, kept, VectorWeights(kept, confidences)))

\* _infer_from_vectors: ValueError unless every vector has num_bits
\* components, then the confidence-weighted aggregate, thresholded.
infer_from_vectors(c, vectors, confidences) ==
    IF vectors = <<>>
    THEN Returned(<<>>)
    ELSE IF \E j \in 1..Len(vectors) : Len(vectors[j]) /= c.num_bits
    THEN Raised("ValueError")
    ELSE Returned(ThresholdAll(c, vectors, VectorWeights(vectors, confidences)))

\* Optional[List[List[float]]]: None, or a list of vectors.
NoneVectors == [is_none |-> TRUE, list |-> <<>>]
SomeVectors(list) == [is_none |-> FALSE, list |-> list]

\* infer_weights: the vector path when observation_vectors is a non-empty
\* list, the synthetic path for None and for an empty list.
infer_weights(c, phantom, observation_vectors) ==
    IF ~observation_vectors.is_none /\ observation_vectors.list /= <<>>
    THEN infer_from_vectors(c, observation_vectors.list, phantom.confidence_scores)
    ELSE Returned(infer_synthetic(c, phantom))

\* 2^n
RECURSIVE Pow2(_)
Pow2(n) == IF n = 0 THEN 1 ELSE 2 * Pow2(n - 1)

\* (byte >> bit_idx) & 1
TestBit(byte, bit_idx) == (byte \div Pow2(bit_idx)) % 2

\* byte | (1 << bit_idx)
SetBit(byte, bit_idx) ==
    IF TestBit(byte, bit_idx) = 1 THEN byte ELSE byte + Pow2(bit_idx)

\* (num_bits + 7) // 8
NumBytes(num_bits) == (num_bits + 7) \div 8

\* bytearray(n): n zero bytes.
ZeroBytes(n) == [k \in 1..n |-> 0]

\* The index of a bytearray of n bytes that Python's idx denotes (negative
\* indices count from the end), 1-based; 0 when idx is out of range.
ByteIndex(n, idx) ==
    IF idx >= 0 /\ idx < n THEN idx + 1
    ELSE IF idx < 0 /\ idx >= -n THEN n + idx + 1
    ELSE 0

\* One iteration of slice_to_bits' loop over the weights.
SliceWeight(planes, weight) ==
    LET byte_idx == weight.position \div 8
        bit_idx == weight.position % 8
        k == ByteIndex(Len(planes.bits_pos), byte_idx)
    IN  IF weight.value /= 1 /\ weight.value /= -1
        THEN planes
        ELSE IF k = 0
        THEN [planes EXCEPT !.raised = "IndexError"]
        ELSE IF weight.value = 1
        THEN [planes EXCEPT !.bits_pos[k] = SetBit(@, bit_idx)]
        ELSE [planes EXCEPT !.bits_neg[k] = SetBit(@, bit_idx)]

RECURSIVE SliceLoop(_, _)
SliceLoop(planes, weights) ==
    IF weights = <<>> \/ planes.raised /= "none"
    THEN planes
    ELSE SliceLoop(SliceWeight(planes, Head(weights)), Tail(weights))

\* Mutant: the bit offset taken from the byte's other end (big-endian
\* within the byte), in the writer only.
slice_to_bits_big_endian(c, weights) ==
    LET flipped == [k \in 1..Len(weights) |->
                       [weights[k] EXCEPT !.position =
                           8 * (@ \div 8) + (7 - (@ % 8))]]
        planes == SliceLoop([raised |-> "none",
                             bits_pos |-> ZeroBytes(NumBytes(c.num_bits)),
                             bits_neg |-> ZeroBytes(NumBytes(c.num_bits))],
                            flipped)
    IN  Returned([bits_pos |-> planes.bits_pos, bits_neg |-> planes.bits_neg])

\* Mutant: a weight of -1 sets its bit in both planes.
slice_to_bits_both_planes(c, weights) ==
    LET planes == SliceLoop([raised |-> "none",
                             bits_pos |-> ZeroBytes(NumBytes(c.num_bits)),
                             bits_neg |-> ZeroBytes(NumBytes(c.num_bits))],
                            weights)
        marks == SliceLoop([raised |-> "none",
                            bits_pos |-> planes.bits_pos,
                            bits_neg |-> planes.bits_neg],
                           [k \in 1..Len(weights) |->
                               [weights[k] EXCEPT !.value = IF @ = -1 THEN 1 ELSE 0]])
    IN  Returned([bits_pos |-> marks.bits_pos, bits_neg |-> planes.bits_neg])

\* Mutant: num_bytes = num_bits // 8, the + 7 forgotten.
slice_to_bits_floor_bytes(c, weights) ==
    LET planes == SliceLoop([raised |-> "none",
                             bits_pos |-> ZeroBytes(c.num_bits \div 8),
                             bits_neg |-> ZeroBytes(c.num_bits \div 8)],
                            weights)
    IN  IF planes.raised /= "none"
        THEN Raised(planes.raised)
        ELSE Returned([bits_pos |-> planes.bits_pos, bits_neg |-> planes.bits_neg])

\* slice_to_bits: two planes of ceil(num_bits / 8) bytes; bit position % 8 of
\* byte position // 8 is set in the positive plane for +1, in the negative
\* plane for -1.
slice_to_bits(c, weights) ==
    LET planes == SliceLoop([raised |-> "none",
                             bits_pos |-> ZeroBytes(NumBytes(c.num_bits)),
                             bits_neg |-> ZeroBytes(NumBytes(c.num_bits))],
                            weights)
    IN  IF planes.raised /= "none"
        THEN Raised(planes.raised)
        ELSE Returned([bits_pos |-> planes.bits_pos, bits_neg |-> planes.bits_neg])

\* Mutant: every reconstructed weight, void or not, gets confidence 1.0.
bits_to_weights_all_confident(c, bits_pos, bits_neg) ==
    IF c.num_bits > 8 * Min(Len(bits_pos), Len(bits_neg))
    THEN Raised("IndexError")
    ELSE Returned([k \in 1..c.num_bits |->
            LET position == k - 1
                has_pos == TestBit(bits_pos[(position \div 8) + 1], position % 8)
                has_neg == TestBit(bits_neg[(position \div 8) + 1], position % 8)
            IN  TernaryWeight(position,
                              IF has_pos = 1 THEN 1 ELSE IF has_neg = 1 THEN -1 ELSE 0,
                              FOne, NoSources)])

\* bits_to_weights: one weight per position 0 .. num_bits - 1, the positive
\* plane read first; IndexError when a plane is too short.
bits_to_weights(c, bits_pos, bits_neg) ==
    IF c.num_bits > 8 * Min(Len(bits_pos), Len(bits_neg))
    THEN Raised("IndexError")
    ELSE Returned([k \in 1..c.num_bits |->
            LET position == k - 1
                byte_idx == position \div 8
                bit_idx == position % 8
                has_pos == TestBit(bits_pos[byte_idx + 1], bit_idx)
                has_neg == TestBit(bits_neg[byte_idx + 1], bit_idx)
            IN  IF has_pos = 1 THEN TernaryWeight(position, 1, FOne, NoSources)
                ELSE IF has_neg = 1 THEN TernaryWeight(position, -1, FOne, NoSources)
                ELSE TernaryWeight(position, 0, FZero, NoSources)])

\* _calculate_internal_hamming: min(statistics.variance(confidences) * 10,
\* 8.0), and 0.0 below two weights.
calculate_internal_hamming(weights) ==
    IF Len(weights) < 2
    THEN FZero
    ELSE FMin(FMul(Variance([k \in 1..Len(weights) |-> weights[k].confidence]),
                   FromInt(10)),
              FromInt(8))

\* _calculate_weight_skew: statistics.stdev (the sample standard deviation)
\* of [positive_count, negative_count] over their mean.  The quotient is
\* sqrt(2) * |p - n| / (p + n); it is carried by its square, a rational.
calculate_weight_skew(positive_count, negative_count) ==
    IF positive_count = 0 /\ negative_count = 0
    THEN [squared |-> RatZero]
    ELSE LET diff == positive_count - negative_count
             total == positive_count + negative_count
         IN  [squared |-> Rat(2 * diff * diff, total * total)]

\* hashlib.sha256 of a key, taken as collision-free: the digest stands for
\* the key it was computed from.
\* _generate_grain_id: the first 16 hex characters of the digest of
\* f"{phantom_id}:{created_at}".
generate_grain_id(phantom) ==
    [sha256_16 |-> <<phantom.phantom_id, phantom.created_at>>]

\* sorted(list): insertion into an ascending list.
RECURSIVE Insert(_, _)
Insert(x, s) ==
    IF s = <<>> THEN <<x>>
    ELSE IF x <= Head(s) THEN <<x>> \o s
    ELSE <<Head(s)>> \o Insert(x, Tail(s))

RECURSIVE sorted(_)
sorted(s) == IF s = <<>> THEN <<>> ELSE Insert(Head(s), sorted(Tail(s)))

\* Mutant: created_at is serialised with the evidence.
generate_evidence_hash_timestamped(phantom, weights) ==
    [sha256 |-> [avg_confidence |-> avg_confidence(phantom),
                 created_at |-> phantom.created_at,
                 fact_ids |-> sorted(phantom.fact_order),
                 hit_count |-> phantom.hit_count,
                 phantom_id |-> phantom.phantom_id,
                 query_concepts |-> phantom.query_concepts]]

\* Mutant: list(phantom.fact_ids) serialised as the set iterates, without
\* sorted.
generate_evidence_hash_unsorted(phantom, weights) ==
    [sha256 |-> [avg_confidence |-> avg_confidence(phantom),
                 fact_ids |-> phantom.fact_order,
                 hit_count |-> phantom.hit_count,
                 phantom_id |-> phantom.phantom_id,
                 query_concepts |-> phantom.query_concepts]]

\* Mutant: the confidence history serialised in place of its mean.
generate_evidence_hash_history(phantom, weights) ==
    [sha256 |-> [avg_confidence |-> phantom.confidence_scores,
                 fact_ids |-> sorted(phantom.fact_order),
                 hit_count |-> phantom.hit_count,
                 phantom_id |-> phantom.phantom_id,
                 query_concepts |-> phantom.query_concepts]]

\* _generate_evidence_hash: the digest of the key-sorted JSON of phantom_id,
\* sorted fact_ids, hit_count, avg_confidence and query_concepts.
generate_evidence_hash(phantom, weights) ==
    [sha256 |-> [avg_confidence |-> avg_confidence(phantom),
                 fact_ids |-> sorted(phantom.fact_order),
                 hit_count |-> phantom.hit_count,
                 phantom_id |-> phantom.phantom_id,
                 query_concepts |-> phantom.query_concepts]]

\* Optional[List[str]]: None, or a list.
NoneAxioms == [is_none |-> TRUE, list |-> <<>>]
SomeAxioms(list) == [is_none |-> FALSE, list |-> list]

\* Mutant: the comparison is >= in place of ==.
CountValue_at_least(weights, value) ==
    Cardinality({k \in 1..Len(weights) : weights[k].value >= value})

\* sum(1 for w in weights if w.value == value)
CountValue(weights, value) ==
    Cardinality({k \in 1..Len(weights) : weights[k].value = value})

\* Mutant: void_count = num_bits - positive_count, the negative weights
\* forgotten.
crystallize_grain_void_miscount(c, phantom, observation_vectors, axiom_ids) ==
    LET inferred == infer_weights(c, phantom, observation_vectors)
        weights == inferred.value
        sliced == slice_to_bits(c, weights)
    IN  IF inferred.raised /= "none" THEN Raised(inferred.raised)
        ELSE Returned(
            [grain_id |-> generate_grain_id(phantom),
             source_phantom_id |-> phantom.phantom_id,
             cartridge_id |-> phantom.cartridge_id,
             num_bits |-> c.num_bits,
             bits_positive |-> CountValue(weights, 1),
             bits_negative |-> CountValue(weights, -1),
             bits_void |-> c.num_bits - CountValue(weights, 1),
             axiom_ids |-> axiom_ids.list,
             evidence_hash |-> generate_evidence_hash(phantom, weights),
             internal_hamming |-> calculate_internal_hamming(weights),
             weight_skew |-> calculate_weight_skew(CountValue(weights, 1),
                                                   CountValue(weights, -1)),
             avg_confidence |-> avg_confidence(phantom),
             observation_count |-> phantom.hit_count,
             bit_array_plus |-> sliced.value.bits_pos,
             bit_array_minus |-> sliced.value.bits_neg,
             epistemic_level |-> phantom.epistemic_level])

\* crystallize_grain after infer_weights: count, slice, metrics, ids,
\* GrainMetadata.
Crystallized(c, phantom, axiom_ids, inferred) ==
    LET weights == inferred.value
        positive_count == CountValue(weights, 1)
        negative_count == CountValue(weights, -1)
        void_count == c.num_bits - positive_count - negative_count
        sliced == slice_to_bits(c, weights)
    IN  IF inferred.raised /= "none" THEN Raised(inferred.raised)
        ELSE IF sliced.raised /= "none" THEN Raised(sliced.raised)
        ELSE Returned(
            [grain_id |-> generate_grain_id(phantom),
             source_phantom_id |-> phantom.phantom_id,
             cartridge_id |-> phantom.cartridge_id,
             num_bits |-> c.num_bits,
             bits_positive |-> positive_count,
             bits_negative |-> negative_count,
             bits_void |-> void_count,
             axiom_ids |-> axiom_ids.list,
             evidence_hash |-> generate_evidence_hash(phantom, weights),
             internal_hamming |-> calculate_internal_hamming(weights),
             weight_skew |-> calculate_weight_skew(positive_count, negative_count),
             avg_confidence |-> avg_confidence(phantom),
             observation_count |-> phantom.hit_count,
             bit_array_plus |-> sliced.value.bits_pos,
             bit_array_minus |-> sliced.value.bits_neg,
             epistemic_level |-> phantom.epistemic_level])

\* crystallize_grain: infer, count, slice, metrics, ids, GrainMetadata.  An
\* exception of infer_weights or slice_to_bits leaves no grain.
crystallize_grain(c, phantom, observation_vectors, axiom_ids) ==
    Crystallized(c, phantom, axiom_ids, infer_weights(c, phantom, observation_vectors))

\* ------------------------------------------------------------------- state
VARIABLES
    validator,            \* the AxiomValidator's configuration
    crusher,              \* the TernaryCrush's configuration
    pc,                   \* "idle", "called" on the arguments, "returned"
    op,                   \* the method called last
    phantom,              \* its candidate argument
    phantoms,             \* its list of candidates (validate_batch)
    threads,              \* the frames of concurrent validate calls
    existing_grains,      \* its existing_grains argument
    observation_vectors,  \* its observation_vectors argument
    axiom_ids,            \* its axiom_ids argument
    weights,              \* its weights argument
    planes,               \* its bits_pos and bits_neg arguments
    result,               \* what it handed back: a value or an exception
    passed_report         \* the validate outcome the caller crystallizes on

vars == <<validator, crusher, pc, op, phantom, phantoms, threads, existing_grains,
          observation_vectors, axiom_ids, weights, planes, result, passed_report>>

config == <<validator, crusher>>

\* The arguments only calls of the validator take, and only of the crusher.
validator_args == <<existing_grains>>
batch_args == <<phantoms>>
concurrent == <<threads>>
gate == <<passed_report>>
crush_args == <<observation_vectors, axiom_ids, weights, planes>>

\* ------------------------------------------------------------- input sets
\* The orders in which a Python set holding the given elements may iterate:
\* equal sets need not iterate alike.
IterationOrders(set) ==
    {order \in [1..Cardinality(set) -> set] :
        \A i, j \in 1..Cardinality(set) : order[i] = order[j] => i = j}

\* A CPython set of non-negative ints below 2^61 - 1 (hash(n) = n): a table
\* of mask + 1 slots, each Unused or holding a key.
Unused == -1
LinearProbes == 9
PerturbShift == 5
MinTableSize == 8

\* The slot a new key is stored in: the first unused one of slot i and, when
\* i + LINEAR_PROBES <= mask, of the 9 slots after it; failing that the
\* probe moves to (i * 5 + 1 + perturb) & mask with perturb >>= PERTURB_SHIFT.
RECURSIVE FreeSlot(_, _, _)
FreeSlot(table, i, perturb) ==
    LET mask == Len(table) - 1
        last == IF i + LinearProbes <= mask THEN i + LinearProbes ELSE i
        free == {j \in i..last : table[j + 1] = Unused}
        shifted == perturb \div 2^PerturbShift
    IN  IF free /= {}
        THEN CHOOSE j \in free : \A k \in free : j <= k
        ELSE FreeSlot(table, (i * 5 + 1 + shifted) % (mask + 1), shifted)

\* The table with the key stored, without a resize.
InsertClean(table, key) ==
    [table EXCEPT ![FreeSlot(table, key % Len(table), key) + 1] = key]

RECURSIVE TableSize(_, _)
TableSize(minused, size) ==
    IF size <= minused THEN TableSize(minused, 2 * size) ELSE size

RECURSIVE Reinsert(_, _, _)
Reinsert(old, j, table) ==
    IF j > Len(old) THEN table
    ELSE Reinsert(old, j + 1,
                  IF old[j] = Unused THEN table ELSE InsertClean(table, old[j]))

\* set_table_resize: the keys move, in slot order, to a table of the least
\* power of two above minused.
Resize(table, minused) ==
    Reinsert(table, 1, [j \in 1..TableSize(minused, MinTableSize) |-> Unused])

\* set.add of a key the set does not hold: the table grows to hold four
\* times its keys once fill * 5 >= mask * 3.
SetAdd(table, key) ==
    LET stored == InsertClean(table, key)
        used == Cardinality({j \in 1..Len(stored) : stored[j] /= Unused})
    IN  IF used * 5 < (Len(table) - 1) * 3 THEN stored ELSE Resize(stored, used * 4)

RECURSIVE SetOf(_, _)
SetOf(table, keys) ==
    IF keys = {} THEN table
    ELSE LET least == CHOOSE k \in keys : \A other \in keys : k <= other
         IN  SetOf(SetAdd(table, least), keys \ {least})

\* list(s) of a set built by adding its elements to an empty set in
\* ascending order: the keys in slot order.  (A set built in another order
\* may iterate differently; IterationOrders has every order.)
IterationOrder(set) ==
    SelectSeq(SetOf([j \in 1..MinTableSize |-> Unused], set), LAMBDA key : key /= Unused)

\* The same candidate (an equal fact_ids set) iterating in the given order.
Iterating(p, order) == [p EXCEPT !.fact_order = order]

\* PhantomCandidate(...): the record the upstream registry produces.
\* fact_order is the order in which its fact_ids set iterates.
PhantomCandidate(phantom_id, fact_ids, hit_count, confidence_scores, query_concepts, cycle_consistency, status, created_at) ==
    [phantom_id |-> phantom_id,
     cartridge_id |-> "test",
     fact_ids |-> fact_ids,
     fact_order |-> IterationOrder(fact_ids),
     hit_count |-> hit_count,
     confidence_scores |-> confidence_scores,
     query_concepts |-> query_concepts,
     cycle_consistency |-> cycle_consistency,
     status |-> status,
     created_at |-> created_at,
     epistemic_level |-> "L2"]

NoPhantom == PhantomCandidate("", {}, 0, <<>>, <<>>, 0, "", 0)
NoResult == Raised("not called")
NoPlanes == [bits_pos |-> <<>>, bits_neg |-> <<>>]

\* Confidence scores, in hundredths.
ScoreVals == {40, 85, 95, 100}

\* Histories of at most MaxScores scores, listed in non-decreasing order,
\* and one whose coherence score is below 0.7 and rounds to 0.7.
ScoreSeqs ==
    {s \in UNION {[1..n -> ScoreVals] : n \in 0..MaxScores} :
        \A i \in 1..(Len(s) - 1) : s[i] <= s[i + 1]}
        \cup {<<0, 11, 52>>}

ConceptLists ==
    {<<>>, <<"concept_a">>, <<"concept_a", "concept_a">>, <<"concept_a", "concept_b">>,
     <<"concept_a", "concept_a", "concept_a">>}

\* Fact-id sets of candidates.
CandidateFacts == {{}, {1, 2, 3}, {1, 2, 3, 4}}

\* Existing-grain records: one without source_phantom_id, one as
\* crystallize_grain builds it (source_phantom_id is the phantom's id), and
\* five whose source_phantom_id is a fact-id set, two of them the same set
\* under different grain ids.
GrainNoSource == Grain(FALSE, "none", {}, "", TRUE, "g_nosource")
GrainCrystallized == Grain(TRUE, "str", {}, "phantom_1", TRUE, "g_crystal")
GrainEmpty == Grain(TRUE, "set", {}, "", TRUE, "g_empty")
GrainSame == Grain(TRUE, "set", {1, 2, 3}, "", TRUE, "g_same")
GrainTwin == Grain(TRUE, "set", {1, 2, 3}, "", TRUE, "g_twin")
GrainNear == Grain(TRUE, "set", {1, 2, 3, 5}, "", TRUE, "g_near")
GrainFar == Grain(TRUE, "set", {4, 5, 6}, "", FALSE, "")

GrainKinds ==
    {GrainNoSource, GrainCrystallized, GrainEmpty, GrainSame, GrainTwin, GrainNear,
     GrainFar}

GrainLists ==
    {NoneGrains} \cup
    {SomeGrains(l) : l \in UNION {[1..n -> GrainKinds] : n \in 0..MaxGrains}}

\* Confidence scores of candidates handed to the crusher, in hundredths, in
\* any order (the vector path pairs them with the vectors by position): the
\* sequences over 0.0 and 1.0, a single 0.5, and a pair under which two
\* components of 0.7 aggregate to 0.7000000000000001.
CrushScoreVals == {0, 100}

CrushScoreSeqs ==
    UNION {[1..n -> CrushScoreVals] : n \in 0..MaxCrushScores}
        \cup {<<50>>, <<10, 50>>}

\* The histories of the candidates handed to crystallize_grain: no scores
\* and two unequal pairs, so fewer, as many and more scores than vectors.
GrainScoreSeqs == {<<>>, <<0, 100>>, <<10, 50>>}

\* An observation vector of the given length whose components cycle
\* through the three values of a pattern, in hundredths.
Vector(length, pattern) ==
    [i \in 1..length |-> pattern[((i - 1) % 3) + 1]]

VectorPatterns == {<<100, -100, 0>>, <<70, -70, 70>>, <<80, -80, -60>>}

\* The vectors offered to a crusher of num_bits bits: three of the right
\* length and one that is one component short.
VectorsFor(num_bits) ==
    {Vector(num_bits, pattern) : pattern \in VectorPatterns}
        \cup {Vector(num_bits - 1, <<100, -100, 0>>)}

VectorLists(num_bits) ==
    {NoneVectors} \cup
    {SomeVectors(l) : l \in UNION {[1..n -> VectorsFor(num_bits)] : n \in 0..MaxVectors}}

AxiomLists == {NoneAxioms, SomeAxioms(<<"axiom_001">>)}

\* The candidates of a batch: two ids, hit counts on either side of the
\* minimum, and a coherent and an incoherent history.
BatchCandidates ==
    {PhantomCandidate(id, {1, 2, 3}, hits, scores, <<"concept_a">>, 0, "new", 1) :
        id \in {"phantom_1", "phantom_2"},
        hits \in {MinObservations - 1, MinObservations},
        scores \in {<<85, 95>>, <<40, 100, 100, 100>>}}

\* Batches of at most MaxBatch candidates, repetitions included.
Batches == UNION {[1..n -> BatchCandidates] : n \in 0..MaxBatch}

\* The candidates validated concurrently, and the lists of them.
ParallelCandidates == {p \in BatchCandidates : p.hit_count = MinObservations}

ParallelBatches == UNION {[1..n -> ParallelCandidates] : n \in 1..MaxBatch}

\* The lists of existing grains a batch is validated against.
BatchGrainLists ==
    {NoneGrains, SomeGrains(<<>>), SomeGrains(<<GrainNear>>),
     SomeGrains(<<GrainNoSource, GrainFar>>), SomeGrains(<<GrainCrystallized>>)}

\* The lists of existing grains a single candidate is validated against.
ValidateGrainLists ==
    BatchGrainLists \cup
    {SomeGrains(<<GrainEmpty>>), SomeGrains(<<GrainTwin, GrainSame>>),
     SomeGrains(<<GrainNoSource, GrainNear>>), SomeGrains(<<GrainFar, GrainSame>>)}

\* The fact_ids of the candidates handed to the crusher.
CrushFacts == {1, 2}

\* The cycles at which a candidate handed to crystallize_grain was created.
CreatedAts == {1, 2}

\* Confidences of the weights handed to slice_to_bits, in hundredths.
WeightConfidences == {30, 100}

\* The ternary weight sequences of a crusher of num_bits bits: one weight
\* per bit position, in order, each -1, 0 or +1.
WeightSeqs(num_bits) ==
    {[k \in 1..num_bits |-> TernaryWeight(k - 1, values[k], Pct(confidence), NoSources)] :
        values \in [1..num_bits -> {-1, 0, 1}], confidence \in WeightConfidences}

\* -------------------------------------------------------------------- Init
Init ==
    /\ validator = NewValidator
    /\ crusher \in {NewCrush(n) : n \in 1..MaxNumBits}
    /\ pc = "idle"
    /\ op = "none"
    /\ phantom = NoPhantom
    /\ phantoms = <<>>
    /\ threads = <<>>
    /\ existing_grains = NoneGrains
    /\ observation_vectors = NoneVectors
    /\ axiom_ids = NoneAxioms
    /\ weights = <<>>
    /\ planes = NoPlanes
    /\ result = NoResult
    /\ passed_report = NoResult

\* ----------------------------------------------------------------- actions
\* validator.check_persistence(phantom)
CallCheckPersistence ==
    /\ pc = "idle"
    /\ \E hits \in 0..MaxHits, scores \in ScoreSeqs,
          consistency \in {0, 85}, status \in {"new", "persistent"} :
        LET p == PhantomCandidate("phantom_1", {1, 2, 3}, hits, scores,
                                  <<"concept_a">>, consistency, status, 1)
        IN  /\ phantom' = p
            /\ result' = Returned(check_persistence(validator, p))
    /\ op' = "check_persistence"
    /\ pc' = "returned"
    /\ UNCHANGED <<config, gate, concurrent, batch_args, validator_args, crush_args>>

\* validator.check_least_resistance(phantom)
CallCheckLeastResistance ==
    /\ pc = "idle"
    /\ \E scores \in ScoreSeqs, concepts \in ConceptLists :
        LET p == PhantomCandidate("phantom_1", {1, 2, 3}, MinObservations, scores,
                                  concepts, 0, "new", 1)
        IN  /\ phantom' = p
            /\ result' = Returned(check_least_resistance(validator, p))
    /\ op' = "check_least_resistance"
    /\ pc' = "returned"
    /\ UNCHANGED <<config, gate, concurrent, batch_args, validator_args, crush_args>>

\* validator.check_independence(phantom, existing_grains)
CallCheckIndependence ==
    /\ pc = "idle"
    /\ \E facts \in CandidateFacts, grains \in GrainLists :
        LET p == PhantomCandidate("phantom_1", facts, MinObservations, <<85, 95>>,
                                  <<"concept_a">>, 0, "new", 1)
            Outcome(r) == IF r.raised /= "none" THEN Raised(r.raised) ELSE Returned(r)
        IN  /\ phantom' = p
            /\ existing_grains' = grains
            /\ result' = Outcome(check_independence(validator, p, grains))
    /\ op' = "check_independence"
    /\ pc' = "returned"
    /\ UNCHANGED <<config, gate, concurrent, batch_args, crush_args>>

\* The caller builds a candidate and a list of existing grains for validate.
PrepareValidate ==
    /\ pc = "idle"
    /\ \E hits \in {MinObservations - 1, MinObservations}, scores \in ScoreSeqs,
          facts \in CandidateFacts, grains \in ValidateGrainLists :
        /\ phantom' = PhantomCandidate("phantom_1", facts, hits, scores,
                                       <<"concept_a">>, 0, "new", 1)
        /\ existing_grains' = grains
    /\ op' = "validate"
    /\ pc' = "called"
    /\ UNCHANGED <<config, gate, concurrent, batch_args, crush_args, result>>

\* validator.validate(phantom, existing_grains): the method assigns to no
\* attribute of self, of the candidate or of the grains.
CallValidate ==
    /\ pc = "called"
    /\ op = "validate"
    /\ result' = validate(validator, phantom, existing_grains)
    /\ pc' = "returned"
    /\ UNCHANGED <<config, gate, concurrent, batch_args, crush_args, op, phantom, validator_args>>

\* The caller builds a list of candidates and a list of existing grains for
\* validate_batch.
PrepareValidateBatch ==
    /\ pc = "idle"
    /\ \E batch \in Batches, grains \in BatchGrainLists :
        /\ phantoms' = batch
        /\ existing_grains' = grains
    /\ op' = "validate_batch"
    /\ pc' = "called"
    /\ UNCHANGED <<config, gate, concurrent, crush_args, phantom, result>>

\* Mutant: a candidate found ready is appended, as a grain whose identity
\* is its fact_ids, to the caller's list of existing grains.
CallValidateBatch_remembering ==
    /\ pc = "called"
    /\ op = "validate_batch"
    /\ result' = validate_batch(validator, phantoms, existing_grains)
    /\ existing_grains' =
           IF result'.raised /= "none" \/ existing_grains.is_none
           THEN existing_grains
           ELSE SomeGrains(existing_grains.list \o
                    [k \in 1..Len(result'.value.crystallization_ready) |->
                        Grain(TRUE, "set",
                              {result'.value.crystallization_ready[k].fact_ids[i] :
                                  i \in 1..Len(result'.value.crystallization_ready[k].fact_ids)},
                              "", TRUE,
                              result'.value.crystallization_ready[k].phantom_id)])
    /\ pc' = "returned"
    /\ UNCHANGED <<config, gate, concurrent, batch_args, crush_args, op, phantom>>

\* validator.validate_batch(phantoms, existing_grains): the results are
\* built from fresh lists and dicts; the arguments are only read.
CallValidateBatch ==
    /\ pc = "called"
    /\ op = "validate_batch"
    /\ result' = validate_batch(validator, phantoms, existing_grains)
    /\ pc' = "returned"
    /\ UNCHANGED <<config, gate, concurrent, batch_args, crush_args, op, phantom, validator_args>>

\* crusher.infer_weights(phantom, observation_vectors)
CallInferWeights ==
    /\ pc = "idle"
    /\ \E scores \in CrushScoreSeqs, vectors \in VectorLists(crusher.num_bits) :
        LET p == PhantomCandidate("phantom_1", CrushFacts, 15, scores,
                                  <<"concept_a", "concept_b">>, 85, "locked", 1)
        IN  /\ phantom' = p
            /\ observation_vectors' = vectors
            /\ result' = infer_weights(crusher, p, vectors)
    /\ op' = "infer_weights"
    /\ pc' = "returned"
    /\ UNCHANGED <<config, gate, concurrent, batch_args, validator_args, axiom_ids, weights, planes>>

\* The caller maps validate over a list of candidates in parallel: one
\* call per candidate, all against the same snapshot of existing grains.
PrepareParallelValidate ==
    /\ pc = "idle"
    /\ \E batch \in ParallelBatches, grains \in BatchGrainLists :
        /\ phantoms' = batch
        /\ existing_grains' = grains
        /\ threads' = [t \in 1..Len(batch) |-> NewFrame(batch[t])]
    /\ op' = "parallel_validate"
    /\ pc' = "called"
    /\ UNCHANGED <<config, gate, crush_args, phantom, result>>

\* One of the concurrent validate calls runs its next statement group; the
\* calls share the validator and the snapshot, which they only read.
RunValidateStep ==
    /\ pc = "called"
    /\ op = "parallel_validate"
    /\ \E t \in DOMAIN threads :
        /\ threads[t].step < 4
        /\ threads' = [threads EXCEPT
               ![t] = validate_step(validator, phantoms[t], existing_grains, @)]
    /\ UNCHANGED <<config, gate, batch_args, validator_args, crush_args, pc, op, phantom, result>>

\* Every concurrent call has ended: the caller collects the outcomes.
JoinParallelValidate ==
    /\ pc = "called"
    /\ op = "parallel_validate"
    /\ \A t \in DOMAIN threads : threads[t].step = 4
    /\ result' = Returned([t \in DOMAIN threads |-> threads[t].outcome])
    /\ pc' = "returned"
    /\ UNCHANGED <<config, gate, concurrent, batch_args, validator_args, crush_args, op, phantom>>

\* The gated step of the data flow: the caller keeps the report of a
\* validate call that passed and hands the same candidate on to
\* crystallize_grain, without observation vectors.
PrepareCrystallizeValidated ==
    /\ pc = "returned"
    /\ op = "validate"
    /\ result.raised = "none"
    /\ result.value.overall_passed
    /\ passed_report' = result
    /\ \E axioms \in AxiomLists : axiom_ids' = axioms
    /\ observation_vectors' = NoneVectors
    /\ result' = NoResult
    /\ op' = "crystallize_grain"
    /\ pc' = "called"
    /\ UNCHANGED <<config, concurrent, batch_args, validator_args, phantom, weights, planes>>

\* The caller builds a candidate, observation vectors and axiom ids for
\* crystallize_grain and calls it directly, as the module's example does.
PrepareCrystallizeGrain ==
    /\ pc = "idle"
    /\ \E scores \in GrainScoreSeqs, vectors \in VectorLists(crusher.num_bits),
          axioms \in AxiomLists, created_at \in CreatedAts,
          order \in IterationOrders(CrushFacts) :
        /\ phantom' = Iterating(
               PhantomCandidate("phantom_1", CrushFacts, 15, scores,
                                <<"concept_a", "concept_b">>, 85, "locked", created_at),
               order)
        /\ observation_vectors' = vectors
        /\ axiom_ids' = axioms
    /\ op' = "crystallize_grain"
    /\ pc' = "called"
    /\ UNCHANGED <<config, gate, concurrent, batch_args, validator_args, weights, planes, result>>

\* crusher.crystallize_grain(phantom, observation_vectors, axiom_ids): the
\* method assigns to no attribute of self or of its arguments; the grain is
\* a new record.
CallCrystallizeGrain ==
    /\ pc = "called"
    /\ op = "crystallize_grain"
    /\ result' = crystallize_grain(crusher, phantom, observation_vectors, axiom_ids)
    /\ pc' = "returned"
    /\ UNCHANGED <<config, gate, concurrent, batch_args, validator_args, crush_args, op, phantom>>

\* crusher.slice_to_bits(weights)
CallSliceToBits ==
    /\ pc = "idle"
    /\ \E w \in WeightSeqs(crusher.num_bits) :
        /\ weights' = w
        /\ result' = slice_to_bits(crusher, w)
    /\ op' = "slice_to_bits"
    /\ pc' = "returned"
    /\ UNCHANGED <<config, gate, concurrent, batch_args, phantom, validator_args, observation_vectors, axiom_ids, planes>>

\* crusher.bits_to_weights(bits_pos, bits_neg) on the planes slice_to_bits
\* has just returned; the caller still holds the weights it sliced.
CallBitsToWeights ==
    /\ pc = "returned"
    /\ op = "slice_to_bits"
    /\ result.raised = "none"
    /\ planes' = result.value
    /\ result' = bits_to_weights(crusher, result.value.bits_pos, result.value.bits_neg)
    /\ op' = "bits_to_weights"
    /\ UNCHANGED <<config, gate, concurrent, batch_args, pc, phantom, validator_args, observation_vectors, axiom_ids, weights>>

\* The caller takes the outcome; the components keep nothing of the call.
Return ==
    /\ pc = "returned"
    /\ pc' = "idle"
    /\ op' = "none"
    /\ phantom' = NoPhantom
    /\ phantoms' = <<>>
    /\ threads' = <<>>
    /\ existing_grains' = NoneGrains
    /\ observation_vectors' = NoneVectors
    /\ axiom_ids' = NoneAxioms
    /\ weights' = <<>>
    /\ planes' = NoPlanes
    /\ result' = NoResult
    /\ passed_report' = NoResult
    /\ UNCHANGED config

\* ---------------------------------------------------------- specifications
NextValidator ==
    \/ CallCheckPersistence
    \/ CallCheckLeastResistance
    \/ CallCheckIndependence
    \/ PrepareValidate
    \/ CallValidate
    \/ PrepareValidateBatch
    \/ CallValidateBatch
    \/ Return

\* The validator alone, beside a crusher of the largest width.
InitValidator == Init /\ crusher.num_bits = MaxNumBits

SpecValidator == InitValidator /\ [][NextValidator]_vars

NextCrush ==
    \/ CallInferWeights
    \/ PrepareCrystallizeGrain
    \/ CallCrystallizeGrain
    \/ CallSliceToBits
    \/ CallBitsToWeights
    \/ Return

\* The crusher alone, at every width up to MaxNumBits.
SpecCrush == Init /\ [][NextCrush]_vars

\* The calls that take a candidate from the registry to a grain: validate,
\* validate_batch and crystallize_grain, on crushers of the two largest
\* widths.
NextCore ==
    \/ PrepareValidate
    \/ CallValidate
    \/ PrepareValidateBatch
    \/ CallValidateBatch
    \/ PrepareCrystallizeValidated
    \/ PrepareCrystallizeGrain
    \/ CallCrystallizeGrain
    \/ Return

InitCore == Init /\ crusher.num_bits >= MaxNumBits - 1

SpecCore == InitCore /\ [][NextCore]_vars

\* crystallize_grain alone, called directly on the widest crusher.
NextGrain ==
    \/ PrepareCrystallizeGrain
    \/ CallCrystallizeGrain
    \/ Return

SpecGrain == InitValidator /\ [][NextGrain]_vars

\* validate mapped over a list of candidates: by validate_batch, and by a
\* caller running one validate call per candidate concurrently.
NextBatch ==
    \/ PrepareValidateBatch
    \/ CallValidateBatch
    \/ PrepareParallelValidate
    \/ RunValidateStep
    \/ JoinParallelValidate
    \/ Return

SpecBatch == InitValidator /\ [][NextBatch]_vars

Next == NextValidator \/ NextCrush \/ NextCore \/ NextBatch

Spec == Init /\ [][Next]_vars

\* ------------------------------------------------------------------ claims
\* Order of exact rationals, and the rational 1.
RatLE(a, b) == a.num * b.den <= b.num * a.den
RatOne == Rat(1, 1)

ValidateReturned == pc = "returned" /\ op = "validate" /\ result.raised = "none"

RuleNames == {"persistence", "least_resistance", "independence"}

\* C4: a report returned by validate holds an entry for each of the three
\* rules whatever the earlier rules gave, its overall_passed is the AND of
\* the three entries' passed flags, and failed_rules names exactly the rules
\* whose entry did not pass (so it is empty iff the verdict is a pass).
C4_ValidateRunsAllRules ==
    ValidateReturned =>
        LET report == result.value
            failed == {report.failed_rules[i] : i \in 1..Len(report.failed_rules)}
        IN  /\ DOMAIN report.rules = RuleNames
            /\ \A name \in RuleNames : report.rules[name].rule = name
            /\ report.overall_passed =
                   (\A name \in RuleNames : report.rules[name].passed)
            /\ failed = {name \in RuleNames : ~report.rules[name].passed}
            /\ (report.failed_rules = <<>>) = report.overall_passed

\* C4 witness: a report in which persistence failed first and the two later
\* rules were still run and failed as well.
C4_Witness ==
    /\ ValidateReturned
    /\ result.value.failed_rules = <<"persistence", "least_resistance", "independence">>
    /\ ~result.value.overall_passed

\* Every record of the list either lacks source_phantom_id or holds a
\* fact-id set in it.
FactSetGrainsOnly(grains) ==
    \A i \in 1..Len(grains.list) :
        grains.list[i].has_source => grains.list[i].source_kind = "set"

\* C5 (the claim as stated, on lists whose identities are fact-id sets):
\* validate never raises, whatever the candidate and the existing grains.
C5_ValidateNeverRaises ==
    (pc = "returned" /\ op = "validate" /\ FactSetGrainsOnly(existing_grains))
        => result.raised = "none"

\* C6: check_persistence passes iff hit_count >= 5 and avg_confidence >= 0.75,
\* both inclusive, whatever cycle_consistency, status and the number of
\* scores are; the persistence entry of a validate report obeys the same.
PersistenceExpected(p) ==
    p.hit_count >= 5 /\ FGE(avg_confidence(p), Pct(75))

C6_PersistenceIff ==
    /\ (pc = "returned" /\ op = "check_persistence")
           => (result.value.passed = PersistenceExpected(phantom))
    /\ ValidateReturned
           => (result.value.rules["persistence"].passed = PersistenceExpected(phantom))

\* C6 witness: exactly 5 hits and an average of exactly 0.75 over 3 scores
\* pass, with cycle_consistency 0 and status "new".
C6_Witness ==
    /\ pc = "returned" /\ op = "check_persistence"
    /\ phantom.hit_count = 5
    /\ phantom.confidence_scores = <<40, 85, 100>>
    /\ phantom.cycle_consistency = 0 /\ phantom.status = "new"
    /\ result.value.passed

RECURSIVE SumSeq(_)
SumSeq(s) == IF s = <<>> THEN 0 ELSE Head(s) + SumSeq(Tail(s))

RECURSIVE SumSquares(_)
SumSquares(s) == IF s = <<>> THEN 0 ELSE Head(s) * Head(s) + SumSquares(Tail(s))

\* n * (n - 1) * 10^4 times the sample variance of n >= 2 scores given in
\* hundredths: n * sum(x^2) - sum(x)^2.
ScaledVariance(scores) ==
    Len(scores) * SumSquares(scores) - SumSeq(scores) * SumSeq(scores)

\* The sample variance of a history of n >= 2 scores is at most 0.075:
\* (n * sum(x^2) - sum(x)^2) / (n * (n - 1)) <= 750 in hundredths squared.
VarianceAtMost75Thousandths(scores) ==
    ScaledVariance(scores) <= 750 * Len(scores) * (Len(scores) - 1)

LeastResistanceExpected(scores) ==
    Len(scores) < 2 \/ VarianceAtMost75Thousandths(scores)

\* k thousandths are within half a thousandth of the sample variance of
\* the scores (0 below two scores).
NearVariance(k, scores) ==
    LET n == Len(scores)
    IN  IF n < 2 THEN k = 0
        ELSE 2 * Abs(ScaledVariance(scores) - 10 * k * n * (n - 1)) <= 10 * n * (n - 1)

\* C7: check_least_resistance passes iff coherence_score >= 0.7, with
\* coherence_score = 1 - min(variance / 0.25, 1) and variance the sample
\* variance (0 below 2 scores); so it passes iff the variance is at most
\* 0.075, and always for 0 or 1 scores.  The metrics report the variance
\* and the score rounded to the thousandth.
C7_LeastResistanceIff ==
    /\ (pc = "returned" /\ op = "check_least_resistance") =>
           LET m == result.value
               scores == phantom.confidence_scores
               variance == ConfidenceVariance(scores)
               coherence == FSub(FOne, FMin(FMul(FromInt(4), variance), FOne))
           IN  /\ m.confidence_variance = Round3(variance)
               /\ NearVariance(NearestThousandth(variance), scores)
               /\ m.coherence_score = Round3(coherence)
               /\ m.passed = FGE(coherence, Pct(70))
               /\ m.passed = LeastResistanceExpected(scores)
    /\ ValidateReturned =>
           (result.value.rules["least_resistance"].passed
                = LeastResistanceExpected(phantom.confidence_scores))

\* C7 witness: four scores whose sample variance is exactly 0.075 pass with
\* a coherence score of exactly 0.7.
C7_Witness ==
    /\ pc = "returned" /\ op = "check_least_resistance"
    /\ phantom.confidence_scores = <<40, 85, 95, 100>>
    /\ result.value.confidence_variance = FromRatio(75, 1000)
    /\ result.value.coherence_score = Pct(70)
    /\ result.value.passed

\* The grains of a list that expose a fact-id set.
FactSetGrains(grains) ==
    {i \in 1..Len(grains.list) :
        grains.list[i].has_source /\ grains.list[i].source_kind = "set"}

\* The Jaccard similarity is defined for every fact-set grain of the list.
JaccardDefined(facts, grains) ==
    \A i \in FactSetGrains(grains) : facts \cup grains.list[i].source_facts /= {}

\* 5 * |intersection| < 3 * |union|: a Jaccard similarity below 0.6.
JaccardBelowThreshold(facts, other) ==
    5 * Cardinality(facts \cap other) < 3 * Cardinality(facts \cup other)

\* C8: check_independence passes when there are no existing grains (None or
\* an empty list); otherwise it passes iff the largest Jaccard similarity
\* between the candidate's fact_ids and a grain exposing a fact-id set is
\* strictly below 0.6, and the reported maximum is that similarity.
C8_IndependenceIff ==
    (/\ pc = "returned" /\ op = "check_independence"
     /\ FactSetGrainsOnly(existing_grains)
     /\ JaccardDefined(phantom.fact_ids, existing_grains)) =>
        /\ result.raised = "none"
        /\ (existing_grains.is_none \/ existing_grains.list = <<>>)
               => result.value.passed
        /\ result.value.passed =
               \A i \in FactSetGrains(existing_grains) :
                   JaccardBelowThreshold(phantom.fact_ids,
                                         existing_grains.list[i].source_facts)
        /\ \A i \in FactSetGrains(existing_grains) :
               LET other == existing_grains.list[i].source_facts
               IN  FLE(FromRatio(Cardinality(phantom.fact_ids \cap other),
                                 Cardinality(phantom.fact_ids \cup other)),
                       result.value.max_overlap)
        /\ result.value.scored =>
               \/ result.value.max_overlap = FZero
               \/ \E i \in FactSetGrains(existing_grains) :
                      LET other == existing_grains.list[i].source_facts
                      IN  result.value.max_overlap =
                              FromRatio(Cardinality(phantom.fact_ids \cap other),
                                        Cardinality(phantom.fact_ids \cup other))

\* C8 witness: a similarity of exactly 0.6 ({1,2,3,4} against {1,2,3,5}),
\* after a grain without the identity field, fails.
C8_Witness ==
    /\ pc = "returned" /\ op = "check_independence"
    /\ phantom.fact_ids = {1, 2, 3, 4}
    /\ existing_grains.list = <<GrainNoSource, GrainNear>>
    /\ result.raised = "none"
    /\ result.value.max_overlap = Pct(60)
    /\ ~result.value.passed

\* The list without the records that expose no fact-id set.
WithoutNonIdentity(grains) ==
    SomeGrains(SelectSeq(grains.list,
                         LAMBDA g : g.has_source /\ g.source_kind = "set"))

\* C9 (the claim as stated): records that expose no fact-id-set identity,
\* the field missing or holding the phantom id as crystallize_grain stores
\* it, never cause an error, and check_independence gives the verdict and
\* the max overlap it gives for the list with those records removed.
C9_NonIdentityGrainsExcluded ==
    (pc = "returned" /\ op = "check_independence" /\ ~existing_grains.is_none) =>
        LET alone == check_independence(validator, phantom,
                                        WithoutNonIdentity(existing_grains))
        IN  /\ result.raised = alone.raised
            /\ result.raised = "none" =>
                   /\ result.value.passed = alone.passed
                   /\ result.value.max_overlap = alone.max_overlap

\* Both bits of position p are set in the two planes.
BothSet(bits_pos, bits_neg, p) ==
    /\ TestBit(bits_pos[(p \div 8) + 1], p % 8) = 1
    /\ TestBit(bits_neg[(p \div 8) + 1], p % 8) = 1

\* Neither bit of position p is set.
NoneSet(bits_pos, bits_neg, p) ==
    /\ TestBit(bits_pos[(p \div 8) + 1], p % 8) = 0
    /\ TestBit(bits_neg[(p \div 8) + 1], p % 8) = 0

CrystallizeReturned ==
    pc = "returned" /\ op = "crystallize_grain" /\ result.raised = "none"

\* The vector path was taken: observation_vectors is a non-empty list.
VectorPath == ~observation_vectors.is_none /\ observation_vectors.list /= <<>>

\* C1: bits_to_weights(slice_to_bits(W)) has the length of W and, position
\* by position, the values of W (the confidences need not agree).
C1_RoundTrip ==
    (pc = "returned" /\ op = "bits_to_weights") =>
        /\ result.raised = "none"
        /\ Len(result.value) = Len(weights)
        /\ \A k \in 1..Len(weights) :
               /\ result.value[k].value = weights[k].value
               /\ result.value[k].position = weights[k].position

\* C1 witness: nine weights holding all three values, the last one (in the
\* second byte) negative, recovered with other confidences than sliced.
C1_Witness ==
    /\ pc = "returned" /\ op = "bits_to_weights"
    /\ Len(weights) = 9
    /\ weights[1].value = 1 /\ weights[2].value = 0 /\ weights[9].value = -1
    /\ weights[9].confidence = Pct(30)
    /\ result.value[9].value = -1
    /\ result.value[9].confidence = FOne

\* C2: no bit position, padding included, has its bit set in both planes,
\* in the planes slice_to_bits returns and in those of every grain; and a
\* position below num_bits has neither bit set exactly when its weight is
\* void.
C2_MutualExclusivity ==
    /\ (pc = "returned" /\ op = "slice_to_bits" /\ result.raised = "none") =>
           /\ \A p \in 0..(8 * Len(result.value.bits_pos) - 1) :
                  ~BothSet(result.value.bits_pos, result.value.bits_neg, p)
           /\ \A p \in 0..(crusher.num_bits - 1) :
                  NoneSet(result.value.bits_pos, result.value.bits_neg, p)
                      = (weights[p + 1].value = 0)
    /\ CrystallizeReturned =>
           /\ Len(result.value.bit_array_plus) = Len(result.value.bit_array_minus)
           /\ \A p \in 0..(8 * Len(result.value.bit_array_plus) - 1) :
                  ~BothSet(result.value.bit_array_plus, result.value.bit_array_minus, p)

\* C2 witness: a grain of the vector path with a plus bit at position 0, a
\* minus bit at position 1 and a void position.
C2_Witness ==
    /\ CrystallizeReturned /\ VectorPath
    /\ crusher.num_bits = 9
    /\ TestBit(result.value.bit_array_plus[1], 0) = 1
    /\ TestBit(result.value.bit_array_minus[1], 1) = 1
    /\ result.value.bits_void > 0

\* C3: in every grain, of the heuristic and of the vector path,
\* bits_positive + bits_negative + bits_void = num_bits and each count is a
\* non-negative integer.
C3_SumInvariant ==
    CrystallizeReturned =>
        LET grain == result.value
        IN  /\ grain.bits_positive \in Nat
            /\ grain.bits_negative \in Nat
            /\ grain.bits_void \in Nat
            /\ grain.bits_positive + grain.bits_negative + grain.bits_void
                   = grain.num_bits
            /\ grain.num_bits = crusher.num_bits

\* C3 witness: a grain of the vector path in which all three counts are
\* positive.
C3_Witness ==
    /\ CrystallizeReturned /\ VectorPath
    /\ result.value.bits_positive > 0
    /\ result.value.bits_negative > 0
    /\ result.value.bits_void > 0

\* Some supplied vector has a length other than num_bits.
LengthMismatch ==
    \E j \in 1..Len(observation_vectors.list) :
        Len(observation_vectors.list[j]) /= crusher.num_bits

\* C10: when a supplied vector has a length other than num_bits,
\* infer_weights and crystallize_grain raise ValueError and hand back no
\* weights and no grain, whatever the other vectors are.
C10_LengthMismatchFatal ==
    (/\ pc = "returned"
     /\ op \in {"infer_weights", "crystallize_grain"}
     /\ VectorPath /\ LengthMismatch) =>
        /\ result.raised = "ValueError"
        /\ result.value = "no value"

\* C10 witness: crystallize_grain raised on a list whose first vector has
\* the right length and whose second is one component short.
C10_Witness ==
    /\ pc = "returned" /\ op = "crystallize_grain"
    /\ Len(observation_vectors.list) = 2
    /\ Len(observation_vectors.list[1]) = crusher.num_bits
    /\ Len(observation_vectors.list[2]) = crusher.num_bits - 1
    /\ result.raised = "ValueError"

\* The same candidate, created at another cycle.
CreatedAt(p, created_at) == [p EXCEPT !.created_at = created_at]

\* C11: the grain_id of a grain stands for phantom_id + ":" + created_at and
\* its evidence_hash for the evidence alone: crystallizing the same
\* candidate with the same vectors at another created_at gives the same
\* evidence_hash and another grain_id, and at the same created_at the same
\* two digests.
C11_IdempotentFingerprint ==
    CrystallizeReturned =>
        /\ result.value.grain_id =
               [sha256_16 |-> <<phantom.phantom_id, phantom.created_at>>]
        /\ \A created_at \in CreatedAts :
               LET again == crystallize_grain(crusher, CreatedAt(phantom, created_at),
                                              observation_vectors, axiom_ids)
               IN  /\ again.raised = "none"
                   /\ again.value.evidence_hash = result.value.evidence_hash
                   /\ (again.value.grain_id = result.value.grain_id)
                          = (created_at = phantom.created_at)

\* C11 witness: a grain crystallized from explicit vectors at cycle 2 whose
\* evidence_hash is that of the crystallization at cycle 1 and whose
\* grain_id is not.
C11_Witness ==
    /\ CrystallizeReturned /\ VectorPath
    /\ phantom.created_at = 2
    /\ result.value.evidence_hash =
           generate_evidence_hash(CreatedAt(phantom, 1), <<>>)
    /\ result.value.grain_id /= generate_grain_id(CreatedAt(phantom, 1))

\* C12: crystallize_grain is a function of the candidate's value, the
\* vectors, the axiom_ids and num_bits: a candidate with an equal fact_ids
\* set that iterates in any other order gives a grain equal in every field
\* (counts, both planes, metrics, grain_id, evidence_hash), on the
\* heuristic and on the vector path.
C12_CrystallizeDeterministic ==
    CrystallizeReturned =>
        \A order \in IterationOrders(phantom.fact_ids) :
            LET other == crystallize_grain(NewCrush(crusher.num_bits),
                                           Iterating(phantom, order),
                                           observation_vectors, axiom_ids)
            IN  /\ other.raised = "none"
                /\ \A field \in DOMAIN result.value :
                       other.value[field] = result.value[field]
                /\ DOMAIN other.value = DOMAIN result.value

\* C12 witness: a grain of the heuristic path, whose weights name their
\* sources in iteration order, from a candidate whose fact_ids iterate as
\* 2, 1, with the evidence_hash of the ascending order.
C12_Witness ==
    /\ CrystallizeReturned /\ ~VectorPath
    /\ phantom.fact_order = <<2, 1>>
    /\ result.value.bits_positive > 0
    /\ result.value.evidence_hash =
           generate_evidence_hash(Iterating(phantom, <<1, 2>>), <<>>)

BatchReturned ==
    pc = "returned" /\ op = "validate_batch" /\ result.raised = "none"

\* validate, called on the candidate alone against the batch's existing
\* grains, passes.
PassesAlone(p) == validate(validator, p, existing_grains).value.overall_passed

\* The phantom_ids of a list of entries, in order.
IdsOf(entries) == [k \in 1..Len(entries) |-> entries[k].phantom_id]

\* C13: in the results of validate_batch the candidates for which validate
\* passes are, in input order, the entries of crystallization_ready, and
\* those for which it fails the entries of rejected; so the two lengths sum
\* to total_phantoms, which is the length of the input, and
\* summary.passed_all is the length of crystallization_ready.
C13_BatchPartitions ==
    BatchReturned =>
        LET results == result.value
        IN  /\ IdsOf(results.crystallization_ready)
                   = IdsOf(SelectSeq(phantoms, PassesAlone))
            /\ IdsOf(results.rejected)
                   = IdsOf(SelectSeq(phantoms, LAMBDA p : ~PassesAlone(p)))
            /\ Len(results.crystallization_ready) + Len(results.rejected)
                   = results.total_phantoms
            /\ results.total_phantoms = Len(phantoms)
            /\ results.summary.passed_all = Len(results.crystallization_ready)

\* C13 witness: a batch of two candidates of which the first is rejected
\* and the second is ready.
C13_Witness ==
    /\ BatchReturned
    /\ Len(phantoms) = 2
    /\ IdsOf(result.value.rejected) = <<"phantom_1">>
    /\ IdsOf(result.value.crystallization_ready) = <<"phantom_2">>
    /\ result.value.summary.passed_all = 1

\* The number of candidates of the batch for which validate fails.
RejectedAlone == Len(SelectSeq(phantoms, LAMBDA p : ~PassesAlone(p)))

\* C14: rejection_rate is the number of rejected candidates over the number
\* of candidates, between 0 and 1; for an empty list validate_batch returns
\* and the rate is 0.
C14_RejectionRate ==
    (pc = "returned" /\ op = "validate_batch") =>
        /\ phantoms = <<>> =>
               /\ result.raised = "none"
               /\ result.value.summary.rejection_rate = FZero
        /\ (result.raised = "none" /\ phantoms /= <<>>) =>
               LET rate == result.value.summary.rejection_rate
               IN  /\ rate = FromRatio(RejectedAlone, Len(phantoms))
                   /\ rate = FromRatio(Len(result.value.rejected),
                                       result.value.total_phantoms)
                   /\ FLE(FZero, rate) /\ FLE(rate, FOne)

\* C14 witness: validate_batch returned for an empty list, with a rate of 0
\* and nothing filed.
C14_Witness ==
    /\ BatchReturned
    /\ phantoms = <<>>
    /\ ~existing_grains.is_none /\ existing_grains.list /= <<>>
    /\ result.value.total_phantoms = 0
    /\ result.value.summary.rejection_rate = FZero

\* C15: bits_to_weights returns num_bits weights, the k-th at position
\* k - 1, each with confidence 1.0 when its value is +1 or -1 and 0.0 when
\* it is void, whatever confidences the sliced weights had.
C15_ReconstructedConfidence ==
    (pc = "returned" /\ op = "bits_to_weights") =>
        /\ result.raised = "none"
        /\ Len(result.value) = crusher.num_bits
        /\ \A k \in 1..crusher.num_bits :
               /\ result.value[k].position = k - 1
               /\ result.value[k].value \in {-1, 0, 1}
               /\ result.value[k].confidence =
                      IF result.value[k].value = 0 THEN FZero ELSE FOne

\* C15 witness: weights sliced with confidence 0.3, a void one among them,
\* come back with confidence 1.0 where non-void and 0.0 where void.
C15_Witness ==
    /\ pc = "returned" /\ op = "bits_to_weights"
    /\ Len(weights) = 3
    /\ \A k \in 1..3 : weights[k].confidence = Pct(30)
    /\ weights[1].value = -1 /\ weights[2].value = 0 /\ weights[3].value = 1
    /\ result.value[1].confidence = FOne
    /\ result.value[2].confidence = FZero
    /\ result.value[3].confidence = FOne

\* The byte k (from 1) of the plane of the given value: the sum of
\* 2^(p % 8) over the positions p < num_bits of that byte whose weight has
\* the value.
PlaneByte(ws, num_bits, value, k) ==
    LET bit[b \in 0..8] ==
            IF b = 8 THEN 0
            ELSE (IF 8 * (k - 1) + b < num_bits /\ ws[8 * (k - 1) + b + 1].value = value
                  THEN Pow2(b) ELSE 0) + bit[b + 1]
    IN  bit[0]

\* The least number of bytes holding num_bits bits.
CeilBytes(num_bits) == CHOOSE n \in 0..num_bits : 8 * n >= num_bits /\ 8 * (n - 1) < num_bits

\* C16: for one weight per position, slice_to_bits returns two arrays of
\* ceil(num_bits / 8) bytes; bit p % 8 of byte p // 8 is set in the positive
\* array iff the weight at position p is +1 and in the negative array iff
\* it is -1, and every other bit, the padding included, is zero.
C16_PlaneLayout ==
    (pc = "returned" /\ op = "slice_to_bits") =>
        /\ result.raised = "none"
        /\ Len(result.value.bits_pos) = CeilBytes(crusher.num_bits)
        /\ Len(result.value.bits_neg) = CeilBytes(crusher.num_bits)
        /\ \A k \in 1..CeilBytes(crusher.num_bits) :
               /\ result.value.bits_pos[k] = PlaneByte(weights, crusher.num_bits, 1, k)
               /\ result.value.bits_neg[k] = PlaneByte(weights, crusher.num_bits, -1, k)

\* C16 witness: nine weights, +1 at positions 0 and 8 and -1 at position 7:
\* the positive plane is 01 01 and the negative plane 80 00 (hexadecimal).
C16_Witness ==
    /\ pc = "returned" /\ op = "slice_to_bits"
    /\ crusher.num_bits = 9
    /\ weights[1].value = 1 /\ weights[8].value = -1 /\ weights[9].value = 1
    /\ \A k \in 2..7 : weights[k].value = 0
    /\ result.value.bits_pos = <<1, 1>>
    /\ result.value.bits_neg = <<128, 0>>

\* C19: on the vector path infer_weights returns num_bits weights, the k-th
\* at position k - 1, +1 where the aggregated value is above 0.7, -1 where
\* it is below -0.7 and void otherwise (at exactly 0.7 and -0.7 too), with
\* confidence min(1, |value|) when non-void and 0 when void.
C19_VectorThreshold ==
    (pc = "returned" /\ op = "infer_weights" /\ VectorPath /\ ~LengthMismatch) =>
        /\ result.raised = "none"
        /\ Len(result.value) = crusher.num_bits
        /\ \A k \in 1..crusher.num_bits :
               LET a == Aggregated(observation_vectors.list,
                                   phantom.confidence_scores, k)
                   w == result.value[k]
               IN  /\ w.position = k - 1
                   /\ w.value = IF FGT(a, Pct(70)) THEN 1
                                ELSE IF FLT(a, Pct(-70)) THEN -1
                                ELSE 0
                   /\ w.confidence =
                          IF w.value = 0 THEN FZero
                          ELSE IF FGE(FAbs(a), FOne) THEN FOne
                          ELSE FAbs(a)

\* C19 witness: one vector whose components are exactly 0.7 and -0.7 gives
\* void weights at positions 0 and 1.
C19_Witness ==
    /\ pc = "returned" /\ op = "infer_weights"
    /\ crusher.num_bits = 9
    /\ observation_vectors.list = <<Vector(9, <<70, -70, 70>>)>>
    /\ phantom.confidence_scores = <<50>>
    /\ result.raised = "none"
    /\ result.value[1].value = 0 /\ result.value[2].value = 0

\* C20 (the claim as stated): weight_skew is the population standard
\* deviation of {positive_count, negative_count} over their mean, that is
\* |positive_count - negative_count| / (positive_count + negative_count),
\* at most 1, and 0 when both counts are zero or equal.
C20_WeightSkewPopulation ==
    CrystallizeReturned =>
        LET grain == result.value
            diff == grain.bits_positive - grain.bits_negative
            total == grain.bits_positive + grain.bits_negative
        IN  /\ grain.weight_skew.squared =
                   IF total = 0 THEN RatZero ELSE Rat(diff * diff, total * total)
            /\ RatLE(grain.weight_skew.squared, RatOne)

\* C17: validate, validate_batch and crystallize_grain only read what they
\* are given: across the call the candidate, the list of candidates, the
\* existing grains and their records, the vectors and the axiom ids are as
\* the caller built them, and no step of any call changes the
\* configuration the validator and the crusher were constructed with.
C17_InputsReadOnly ==
    [][/\ validator' = validator
       /\ crusher' = crusher
       /\ (pc = "called" /\ op \in {"validate", "validate_batch", "crystallize_grain"}) =>
              /\ pc' = "returned"
              /\ phantom' = phantom
              /\ phantoms' = phantoms
              /\ existing_grains' = existing_grains
              /\ observation_vectors' = observation_vectors
              /\ axiom_ids' = axiom_ids]_vars

\* C17 witness: validate_batch has returned with a candidate found ready,
\* beside a list of existing grains that is still the one it was given.
C17_Witness ==
    /\ BatchReturned
    /\ existing_grains = SomeGrains(<<GrainNoSource, GrainFar>>)
    /\ Len(result.value.crystallization_ready) = 2
    /\ validator = NewValidator

\* The number of candidates among the first i of the batch that validate,
\* called alone, passes (pass = TRUE) or fails (pass = FALSE).
RankAlone(i, pass) ==
    Cardinality({j \in 1..i : PassesAlone(phantoms[j]) = pass})

\* The number of candidates of the batch whose named rule passes alone.
RulePassesAlone(name) ==
    Cardinality({i \in 1..Len(phantoms) :
        validate(validator, phantoms[i], existing_grains).value.rules[name].passed})

\* C18: against one snapshot of existing grains, validate_batch files every
\* candidate by the verdict validate gives it alone and keeps for a
\* rejected one the report validate gives it alone, whatever the other
\* candidates and their order are (a candidate found ready is not compared
\* against by the later ones); and a validate call running concurrently
\* with others ends with the outcome it has alone.
C18_BatchIndependentMap ==
    /\ BatchReturned =>
           /\ \A i \in 1..Len(phantoms) :
                  LET alone == validate(validator, phantoms[i], existing_grains)
                  IN  /\ alone.raised = "none"
                      /\ IF alone.value.overall_passed
                         THEN LET entry == result.value.crystallization_ready[RankAlone(i, TRUE)]
                              IN  entry.phantom_id = phantoms[i].phantom_id
                         ELSE LET entry == result.value.rejected[RankAlone(i, FALSE)]
                              IN  /\ entry.phantom_id = phantoms[i].phantom_id
                                  /\ entry.report = alone.value
                                  /\ entry.reasons = alone.value.failed_rules
           /\ result.value.summary.passed_persistence = RulePassesAlone("persistence")
           /\ result.value.summary.passed_least_resistance
                  = RulePassesAlone("least_resistance")
           /\ result.value.summary.passed_independence = RulePassesAlone("independence")
    /\ (op = "parallel_validate" /\ pc \in {"called", "returned"}) =>
           \A t \in DOMAIN threads :
               threads[t].step = 4 =>
                   threads[t].outcome = validate(validator, phantoms[t], existing_grains)

\* C18 witness: two candidates with the same fact_ids, validated in one
\* batch against an empty list of existing grains, are both ready.
C18_Witness ==
    /\ BatchReturned
    /\ existing_grains = SomeGrains(<<>>)
    /\ Len(phantoms) = 2
    /\ phantoms[1].fact_ids = phantoms[2].fact_ids
    /\ IdsOf(result.value.crystallization_ready) = <<"phantom_1", "phantom_2">>

\* The five items the evidence is made of.
Evidence(p) ==
    <<p.phantom_id, p.fact_ids, p.hit_count, avg_confidence(p), p.query_concepts>>

\* The last element first.
RECURSIVE Reverse(_)
Reverse(s) == IF s = <<>> THEN <<>> ELSE Append(Reverse(Tail(s)), Head(s))

\* The candidate p with one item of its evidence changed (or none).
WithItemChanged(p, item) ==
    IF item = "phantom_id" THEN [p EXCEPT !.phantom_id = "phantom_2"]
    ELSE IF item = "fact_ids"
    THEN [p EXCEPT !.fact_ids = @ \cup {9}, !.fact_order = Append(@, 9)]
    ELSE IF item = "hit_count" THEN [p EXCEPT !.hit_count = @ + 1]
    ELSE IF item = "query_concepts" THEN [p EXCEPT !.query_concepts = Reverse(@)]
    ELSE p

\* The candidate p with everything outside its evidence changed: another
\* creation cycle, cartridge and epistemic level, the fact_ids iterating in
\* the opposite order.
WithRestChanged(p) ==
    [p EXCEPT !.created_at = @ + 1, !.cartridge_id = "other",
              !.epistemic_level = "L3", !.fact_order = Reverse(@)]

\* Other observation vectors than the given ones: none when some were
\* supplied, one vector when none was.
OtherVectors(num_bits, vectors) ==
    IF ~vectors.is_none /\ vectors.list /= <<>>
    THEN NoneVectors
    ELSE SomeVectors(<<Vector(num_bits, <<100, -100, 0>>)>>)

\* C21: the evidence_hash of a grain is a function of exactly phantom_id,
\* the fact_ids set, hit_count, avg_confidence and query_concepts: another
\* crystallization has the same evidence_hash iff its candidate agrees on
\* the five, whether or not created_at, cartridge_id, epistemic_level, the
\* iteration order, the vectors supplied and the planes obtained differ.
\* The other candidate has the history 0.5, 0.5 or 1.0, beside the
\* histories of every length and order of the grain's own candidate.
C21_EvidenceHashFunctionOfFive ==
    CrystallizeReturned =>
        \A item \in {"none", "phantom_id", "fact_ids", "hit_count", "query_concepts"},
           scores \in {<<50, 50>>, <<100>>}, rest \in BOOLEAN :
            LET changed == [WithItemChanged(phantom, item) EXCEPT
                               !.confidence_scores = scores]
                other == IF rest THEN WithRestChanged(changed) ELSE changed
                vectors == IF rest
                           THEN OtherVectors(crusher.num_bits, observation_vectors)
                           ELSE SomeVectors(<<>>)
                again == crystallize_grain(crusher, other, vectors, axiom_ids)
            IN  /\ again.raised = "none"
                /\ (again.value.evidence_hash = result.value.evidence_hash)
                       = (Evidence(other) = Evidence(phantom))

\* C21 witness: a grain of the vector path from the history 0.0, 1.0 whose
\* evidence_hash is that of the heuristic grain of a candidate with the
\* history 0.5, 0.5 and everything outside the evidence changed, the planes
\* being different.
C21_Witness ==
    /\ CrystallizeReturned /\ VectorPath
    /\ phantom.confidence_scores = <<0, 100>>
    /\ LET other == WithRestChanged([phantom EXCEPT !.confidence_scores = <<50, 50>>])
           again == crystallize_grain(crusher, other, NoneVectors, axiom_ids)
       IN  /\ again.value.evidence_hash = result.value.evidence_hash
           /\ again.value.bit_array_plus /= result.value.bit_array_plus
           /\ again.value.grain_id /= result.value.grain_id
           /\ again.value.cartridge_id /= result.value.cartridge_id

\* C22 (the claim as stated): a grain is produced for a candidate only
\* after validate has returned an overall pass for that candidate: whenever
\* crystallize_grain hands back a grain, the caller holds a validate report
\* of the grain's candidate whose overall_passed is true.
C22_GateBeforeCrystallization ==
    CrystallizeReturned =>
        /\ passed_report.raised = "none"
        /\ passed_report.value.overall_passed
        /\ passed_report.value.phantom_id = phantom.phantom_id

PersistenceReturned == pc = "returned" /\ op = "check_persistence"

\* C23 (the claim as stated): when check_persistence fails the reason cites
\* the hit count when hit_count < min_observations and cites the confidence
\* when avg_confidence < min_confidence; when it passes the reason reports
\* a persistent pattern.
C23_ReasonCitesEachFailure ==
    PersistenceReturned =>
        LET m == result.value
        IN  /\ (~m.passed /\ phantom.hit_count < 5) => m.reason = "Too few hits"
            /\ (~m.passed /\ FLT(avg_confidence(phantom), Pct(75)))
                   => m.reason = "Low confidence"
            /\ m.passed => m.reason = "Persistent pattern detected"

\* C23 (amended): the reason names one condition, the hit count first: it
\* cites the hit count whenever hit_count < min_observations, whatever the
\* confidence is; it cites the confidence when hit_count >= min_observations
\* and avg_confidence < min_confidence; otherwise the check passes and the
\* reason reports a persistent pattern.  The persistence entry of a
\* validate report carries the same reason.
C23_ReasonCitesFirstFailure ==
    /\ PersistenceReturned =>
           LET m == result.value
           IN  /\ m.reason =
                      IF phantom.hit_count < 5 THEN "Too few hits"
                      ELSE IF FLT(avg_confidence(phantom), Pct(75))
                      THEN "Low confidence"
                      ELSE "Persistent pattern detected"
               /\ m.passed = (m.reason = "Persistent pattern detected")
    /\ ValidateReturned =>
           LET m == result.value.rules["persistence"]
           IN  m.reason =
                   IF phantom.hit_count < 5 THEN "Too few hits"
                   ELSE IF FLT(avg_confidence(phantom), Pct(75))
                   THEN "Low confidence"
                   ELSE "Persistent pattern detected"

\* C23 witness: 4 hits and an average confidence of 0.4: both conditions
\* fail and the reason cites the hit count alone.
C23_Witness ==
    /\ PersistenceReturned
    /\ phantom.hit_count = 4
    /\ phantom.confidence_scores = <<40>>
    /\ ~result.value.passed
    /\ result.value.reason = "Too few hits"

\* The same candidate with other query_concepts.
WithConcepts(p, concepts) == [p EXCEPT !.query_concepts = concepts]

\* C24: concept_consistency is reported and does not gate: a candidate that
\* differs from the validated one only in query_concepts (none, one, all
\* duplicates, all distinct) gets the same check_least_resistance verdict
\* and the same validate verdict and failed rules; the reported value is
\* unique count / total count to the thousandth, above 0 and at most 1, and
\* 1.0 when there are no concepts.
C24_ConceptConsistencyNotGating ==
    /\ (pc = "returned" /\ op = "check_least_resistance") =>
           LET m == result.value
               concepts == phantom.query_concepts
               total == Len(concepts)
               unique == Cardinality({concepts[i] : i \in 1..total})
           IN  /\ \A others \in ConceptLists :
                      check_least_resistance(validator, WithConcepts(phantom, others)).passed
                          = m.passed
               /\ FGT(m.concept_consistency, FZero)
               /\ FLE(m.concept_consistency, FOne)
               /\ total = 0 => m.concept_consistency = FOne
               /\ total > 0 =>
                      LET k == NearestThousandth(m.concept_consistency)
                      IN  /\ m.concept_consistency = FromRatio(k, 1000)
                          /\ 2 * Abs(k * total - 1000 * unique) <= total
    /\ ValidateReturned =>
           \A others \in ConceptLists :
               LET other == validate(validator, WithConcepts(phantom, others),
                                     existing_grains)
               IN  /\ other.raised = "none"
                   /\ other.value.overall_passed = result.value.overall_passed
                   /\ other.value.failed_rules = result.value.failed_rules

\* C24 witness: three copies of one tag: a concept_consistency of 0.333 is
\* reported and the check passes, as it does for the same scores without
\* any concept.
C24_Witness ==
    /\ pc = "returned" /\ op = "check_least_resistance"
    /\ phantom.query_concepts = <<"concept_a", "concept_a", "concept_a">>
    /\ phantom.confidence_scores = <<85, 95>>
    /\ result.value.concept_consistency = FromRatio(333, 1000)
    /\ result.value.passed
    /\ check_least_resistance(validator, WithConcepts(phantom, <<>>)).passed

\* The value the heuristic gives position p of num_bits: +1 below
\* floor(3 * num_bits / 10), then -1 for floor(num_bits / 5) positions,
\* then void.
HeuristicValue(num_bits, p) ==
    IF 10 * (p + 1) <= 3 * num_bits THEN 1
    ELSE IF p < ((3 * num_bits) \div 10) + (num_bits \div 5) THEN -1
    ELSE 0

\* C25: without observation vectors (None or an empty list) infer_weights
\* returns num_bits weights, the k-th at position k - 1, +1 at the lowest
\* floor(0.30 * num_bits) positions, -1 at the next floor(0.20 * num_bits)
\* and void above; and the planes of a heuristic grain are those of the
\* heuristic grain of any other candidate on the same crusher.
C25_HeuristicPartition ==
    /\ (pc = "returned" /\ op = "infer_weights" /\ ~VectorPath) =>
           /\ result.raised = "none"
           /\ Len(result.value) = crusher.num_bits
           /\ \A k \in 1..crusher.num_bits :
                  /\ result.value[k].position = k - 1
                  /\ result.value[k].value = HeuristicValue(crusher.num_bits, k - 1)
    /\ (CrystallizeReturned /\ ~VectorPath) =>
           /\ result.value.bits_positive = (3 * crusher.num_bits) \div 10
           /\ result.value.bits_negative = crusher.num_bits \div 5
           /\ \A item \in {"phantom_id", "fact_ids", "hit_count", "query_concepts"},
                 scores \in {<<>>, <<100>>}, vectors \in {NoneVectors, SomeVectors(<<>>)} :
                  LET other == WithRestChanged(
                                   [WithItemChanged(phantom, item) EXCEPT
                                       !.confidence_scores = scores])
                      again == crystallize_grain(crusher, other, vectors, axiom_ids)
                  IN  /\ again.raised = "none"
                      /\ again.value.bit_array_plus = result.value.bit_array_plus
                      /\ again.value.bit_array_minus = result.value.bit_array_minus

\* C25 witness: on a crusher of 9 bits an empty list of vectors gives +1 at
\* positions 0 and 1, -1 at position 2 and void above.
C25_Witness ==
    /\ pc = "returned" /\ op = "infer_weights"
    /\ crusher.num_bits = 9
    /\ observation_vectors = SomeVectors(<<>>)
    /\ result.raised = "none"
    /\ [k \in 1..9 |-> result.value[k].value] = <<1, 1, -1, 0, 0, 0, 0, 0, 0>>

\* Every supplied vector has the value v (in hundredths) in dimension k.
AllVectorsHold(k, v) ==
    \A j \in 1..Len(observation_vectors.list) : observation_vectors.list[j][k] = v

\* C26 (the claim as stated): the aggregate is a weighted mean over all the
\* supplied vectors, the weights summing to 1, so a dimension in which every
\* vector has the same value v aggregates to v and its weight is the
\* ternary conversion of v, for any candidate, also one whose number of
\* confidence_scores is not the number of vectors.
C26_AggregationIsWeightedMean ==
    (pc = "returned" /\ op = "infer_weights" /\ VectorPath /\ ~LengthMismatch) =>
        /\ result.raised = "none"
        /\ \A k \in 1..crusher.num_bits :
               \A v \in {observation_vectors.list[1][k]} :
                   AllVectorsHold(k, v) =>
                       result.value[k] = Threshold(crusher, k - 1, Pct(v))

IndependenceScored ==
    /\ pc = "returned" /\ op = "check_independence"
    /\ result.raised = "none"
    /\ FactSetGrains(existing_grains) /= {}

\* The Jaccard similarity of the candidate and the i-th existing grain, as
\* an exact ratio.
JaccardWith(i) ==
    Rat(Cardinality(phantom.fact_ids \cap existing_grains.list[i].source_facts),
        Cardinality(phantom.fact_ids \cup existing_grains.list[i].source_facts))

\* The i-th grain is the first of the list to attain the largest similarity.
FirstMostSimilar(i) ==
    /\ i \in FactSetGrains(existing_grains)
    /\ \A j \in FactSetGrains(existing_grains) :
           /\ RatLE(JaccardWith(j), JaccardWith(i))
           /\ j < i => ~RatLE(JaccardWith(i), JaccardWith(j))

\* The overlap the code computes for the i-th grain, to the thousandth.
ReportedOverlap(i) == Round3(FromRatio(JaccardWith(i).num, JaccardWith(i).den))

\* What most_similar_grain holds for the i-th grain.
GrainLabel(i) ==
    IF existing_grains.list[i].has_grain_id
    THEN existing_grains.list[i].grain_id
    ELSE "unknown"

\* C27 (the claim as stated): when existing grains are scored the reported
\* max overlap is the largest Jaccard similarity (to the thousandth) and
\* most_similar_grain is the id, or "unknown", of the first grain attaining
\* it; on a failure that grain has an overlap of at least 0.6.
C27_MostSimilarAttainsMax ==
    IndependenceScored =>
        \E i \in FactSetGrains(existing_grains) :
            /\ FirstMostSimilar(i)
            /\ result.value.max_overlap_with_existing = ReportedOverlap(i)
            /\ result.value.most_similar_grain = GrainLabel(i)
            /\ ~result.value.passed => RatLE(Rat(3, 5), JaccardWith(i))

\* C27 (amended): when the largest similarity is above 0, most_similar_grain
\* is the id, or "unknown", of the first grain attaining it, and on a
\* failure that grain has an overlap of at least 0.6; when every scored
\* grain has similarity 0, most_similar_grain is None and the check
\* passes.  The reported max overlap is the largest similarity rounded to
\* the thousandth.
C27_MostSimilarWhenPositive ==
    IndependenceScored =>
        \E i \in FactSetGrains(existing_grains) :
            /\ FirstMostSimilar(i)
            /\ result.value.max_overlap_with_existing = ReportedOverlap(i)
            /\ result.value.most_similar_grain =
                   IF JaccardWith(i) /= RatZero THEN GrainLabel(i) ELSE "None"
            /\ ~result.value.passed =>
                   /\ RatLE(Rat(3, 5), JaccardWith(i))
                   /\ result.value.most_similar_grain = GrainLabel(i)
            /\ JaccardWith(i) = RatZero => result.value.passed

\* C27 witness: two grains holding the candidate's own fact set under
\* different ids: the check fails naming the first.
C27_Witness ==
    /\ IndependenceScored
    /\ phantom.fact_ids = {1, 2, 3}
    /\ existing_grains.list = <<GrainTwin, GrainSame>>
    /\ ~result.value.passed
    /\ result.value.most_similar_grain = "g_twin"
    /\ result.value.max_overlap_with_existing = FOne

\* The number of candidates of the batch satisfying a condition.
CountCandidates(Cond(_)) == Cardinality({i \in 1..Len(phantoms) : Cond(phantoms[i])})

\* The candidate is below 0.6 in similarity to every existing grain that
\* exposes a fact-id set.
IndependenceExpected(p) ==
    \A i \in FactSetGrains(existing_grains) :
        JaccardBelowThreshold(p.fact_ids, existing_grains.list[i].source_facts)

\* C28: in the summary of validate_batch each per-rule count is the number
\* of input candidates, ready or rejected, that satisfy the rule's
\* condition (5 hits and a mean of 0.75; a variance of at most 0.075;
\* similarity below 0.6), passed_all is the number satisfying all three,
\* and passed_all <= each per-rule count <= total_phantoms.
C28_PerRuleTallies ==
    BatchReturned =>
        LET summary == result.value.summary
            Coherent(p) == LeastResistanceExpected(p.confidence_scores)
            All(p) == PersistenceExpected(p) /\ Coherent(p) /\ IndependenceExpected(p)
        IN  /\ summary.passed_persistence = CountCandidates(PersistenceExpected)
            /\ summary.passed_least_resistance = CountCandidates(Coherent)
            /\ summary.passed_independence = CountCandidates(IndependenceExpected)
            /\ summary.passed_all = CountCandidates(All)
            /\ \A count \in {summary.passed_persistence,
                              summary.passed_least_resistance,
                              summary.passed_independence} :
                   /\ summary.passed_all <= count
                   /\ count <= result.value.total_phantoms

\* C28 witness: of two candidates one is ready and one is rejected by
\* persistence alone: persistence counts 1, the other two rules count 2.
C28_Witness ==
    /\ BatchReturned
    /\ Len(phantoms) = 2
    /\ Len(result.value.rejected) = 1
    /\ result.value.rejected[1].reasons = <<"persistence">>
    /\ result.value.summary.passed_persistence = 1
    /\ result.value.summary.passed_least_resistance = 2
    /\ result.value.summary.passed_independence = 2
    /\ result.value.summary.passed_all = 1

\* The number of bits set in a byte array.
SetBits(bytes) ==
    Cardinality({kb \in (1..Len(bytes)) \X (0..7) : TestBit(bytes[kb[1]], kb[2]) = 1})

\* C29: in every grain bits_positive is the number of bits set in
\* bit_array_plus, bits_negative the number set in bit_array_minus, and
\* bits_void the number of positions below num_bits with neither bit set.
C29_CountsAgreeWithPlanes ==
    CrystallizeReturned =>
        LET grain == result.value
        IN  /\ grain.bits_positive = SetBits(grain.bit_array_plus)
            /\ grain.bits_negative = SetBits(grain.bit_array_minus)
            /\ grain.bits_void =
                   Cardinality({p \in 0..(crusher.num_bits - 1) :
                       NoneSet(grain.bit_array_plus, grain.bit_array_minus, p)})

\* C29 witness: a grain of the vector path on 9 bits whose positive plane
\* is 49 00 and whose negative plane is 92 00 (hexadecimal): 3 positive
\* bits, 3 negative bits and 3 void positions, one of them (position 8) in
\* the second byte of the planes.
C29_Witness ==
    /\ CrystallizeReturned /\ VectorPath
    /\ crusher.num_bits = 9
    /\ result.value.bit_array_plus = <<73, 0>>
    /\ result.value.bit_array_minus = <<146, 0>>
    /\ result.value.bits_positive = 3
    /\ result.value.bits_negative = 3
    /\ result.value.bits_void = 3

\* The rules in the order validate runs them.
RuleOrder == <<"persistence", "least_resistance", "independence">>

\* failed_rules and verdict of a report are in order: the failing rules in
\* the order of RuleOrder, each once, and a verdict that counts and names
\* them.
ReportInOrder(rep) ==
    /\ rep.failed_rules = SelectSeq(RuleOrder, LAMBDA name : ~rep.rules[name].passed)
    /\ \A i, j \in 1..Len(rep.failed_rules) :
           rep.failed_rules[i] = rep.failed_rules[j] => i = j
    /\ Len(rep.failed_rules) \in 0..3
    /\ (Len(rep.failed_rules) = 0) = rep.overall_passed
    /\ rep.verdict.kind = IF rep.overall_passed THEN "CRYSTALLIZE" ELSE "REJECT"
    /\ rep.verdict.count = Len(rep.failed_rules)
    /\ rep.verdict.names = rep.failed_rules

\* C30: failed_rules of a validate report lists the failing rules in the
\* order persistence, least_resistance, independence, without duplicates;
\* the verdict names exactly those rules and their number; the length is
\* between 0 and 3 and is 0 exactly when overall_passed is true.  The
\* reasons validate_batch files for a rejected candidate are that list.
C30_FailedRulesOrdered ==
    /\ ValidateReturned => ReportInOrder(result.value)
    /\ BatchReturned =>
           \A k \in 1..Len(result.value.rejected) :
               /\ ReportInOrder(result.value.rejected[k].report)
               /\ result.value.rejected[k].reasons
                      = result.value.rejected[k].report.failed_rules
               /\ result.value.rejected[k].reasons /= <<>>

\* C30 witness: persistence and independence failed and least_resistance
\* passed: failed_rules is persistence, independence and the verdict
\* rejects with 2 rules.
C30_Witness ==
    /\ ValidateReturned
    /\ result.value.rules["least_resistance"].passed
    /\ result.value.failed_rules = <<"persistence", "independence">>
    /\ result.value.verdict = [kind |-> "REJECT", count |-> 2,
                               names |-> <<"persistence", "independence">>]

====
